---- MODULE Spec2Model ----
(***************************************************************************)
(* Japanese Gentle Converter: the rule-based conversion engine             *)
(* (EnhancedConversionEngine) and the feedback learner (FeedbackLearning). *)
(*                                                                         *)
(* Numbers that are fractions in the source are kept as integers:          *)
(* confidences and scores in hundredths (0.75 is 75, a score of 100 is     *)
(* 100).  A text is a sequence of characters, each character one string.   *)
(***************************************************************************)
EXTENDS Integers, Sequences, FiniteSets, TLC

VARIABLES
  workload,            \* the caller's requests, issued in order, the last one repeated
  calls,               \* convertText calls begun so far
  pending,             \* calls suspended at `await generateConversions`, oldest first
  conversionHistory,   \* EnhancedConversionEngine.conversionHistory
  userPreferences,     \* EnhancedConversionEngine.userPreferences
  lastResult,          \* what the latest finished convertText call returned
  stored,              \* every record handed to storeConversion so far, in order
  lastOp,              \* the operation that made the latest step
  script,              \* the feedback payloads the user submits, in order and repeated
  clock,               \* Date.now(), in milliseconds after the first reading
  feedbackData,        \* FeedbackLearning.feedbackData
  learningPatterns,    \* FeedbackLearning.learningPatterns
  learnerPreferences,  \* FeedbackLearning.userPreferences
  localStorage,        \* what persistFeedback wrote to the browser's localStorage
  submitted,           \* collectFeedback calls so far
  feedbackLog,         \* the payloads collected since construction or the last reset
  input,               \* the arguments of a call on one component of the pipeline
  output,              \* what that call returned
  traffic,             \* the requests the clients of the AI converters will make
  issued,              \* requests made so far
  convertCalls,        \* the AITextConverter.convertText calls, in the order they began
  streams,             \* startStreamingConversion runs that have not called convertText yet
  rateLimitQueue,      \* AITextConverter.rateLimitQueue, as numbers of convertText calls
  currentRequests,     \* AITextConverter.currentRequests
  timers,              \* pending setTimeout(() => this.processQueue(), 100) timers
  cache,               \* AITextConverter.cache, in the Map's insertion order
  realtimeCache,       \* RealTimeConverter.realtimeCache, in the Map's insertion order
  isConverting,        \* RealTimeConverter.isConverting
  conversionQueue,     \* RealTimeConverter.conversionQueue
  delivered,           \* what the latest completed request handed to its client
  cacheLog,            \* the lookups and insertions the latest step made in the caches
  conversionLog        \* the executeConversion and processQueue calls of the latest step

engineVars == <<workload, calls, pending, conversionHistory, userPreferences,
                lastResult, stored>>

componentVars == <<input, output>>

feedbackVars == <<script, clock, feedbackData, learningPatterns, learnerPreferences,
                  localStorage, submitted, feedbackLog>>

converterVars == <<traffic, issued, convertCalls, streams, rateLimitQueue, currentRequests,
                   timers, cache, realtimeCache, isConverting, conversionQueue, delivered,
                   cacheLog, conversionLog>>

vars == <<engineVars, feedbackVars, componentVars, converterVars, lastOp>>

(***************************************************************************)
(* Bounds of the model.                                                    *)
(***************************************************************************)
MaxLongCalls == 103
MaxFeedback == 10
MaxClock == 1
MaxCalls == 7
MaxOverlap == 2
MaxSessionFeedback == 2

(***************************************************************************)
(* Program constants.                                                      *)
(***************************************************************************)
HistoryCap == 100
RecentLevels == 5
RecentApproaches == 10
BaseLevel == 3
TopLevel == 5
FallbackLevel == 2
FallbackConfidence == 30
DefaultConfidence == 85
InitialDefaultLevel == 3

NoLevel == 0
NoApproach == "none"
NoResult == [id |-> 0]

Approaches == {"word-level", "sentence-generation", "level-variation", "context-optimized"}

\* The text createFallbackResponse appends: "をお願いします。"
FallbackSuffix == <<"wo", "o", "nega", "i", "shi", "ma", "su", "maru">>

\* The message of the TypeError that reading options.level raises when options is null.
NullOptionsMessage == "Cannot read properties of null (reading 'level')"

(***************************************************************************)
(* Small helpers.                                                          *)
(***************************************************************************)
Max(a, b) == IF a >= b THEN a ELSE b

Min(a, b) == IF a <= b THEN a ELSE b

Abs(a) == IF a >= 0 THEN a ELSE 0 - a

\* Array.prototype.slice(-n)
SliceLast(s, n) == IF Len(s) <= n THEN s ELSE SubSeq(s, Len(s) - n + 1, Len(s))

RECURSIVE SumSeq(_)
SumSeq(s) == IF s = <<>> THEN 0 ELSE Head(s) + SumSeq(Tail(s))

\* Math.round of the quotient num / den of two naturals (halves round up)
RoundDiv(num, den) == (2 * num + den) \div (2 * den)

(***************************************************************************)
(* EnhancedConversionEngine.determineTargetLevel                           *)
(***************************************************************************)
\* Mutant: the learned default level replaces the level found so far instead of raising it.
determineTargetLevelAssign(context, options, prefs) ==
  IF options.level # NoLevel /\ options.level >= 1 /\ options.level <= TopLevel
  THEN options.level
  ELSE
    LET t0 == BaseLevel
        t1 == IF context.relationship = "superior" THEN Max(t0, 4)
              ELSE IF context.relationship = "subordinate" THEN Max(t0, 2)
              ELSE t0
        t2 == IF context.urgency = "urgent" THEN Max(t1, 3) ELSE t1
        t3 == IF context.situation = "business" THEN Max(t2, 3) ELSE t2
        t4 == IF context.formalityLevel = "very-casual" THEN Max(t3, 4) ELSE t3
        t5 == IF prefs.defaultLevel # 0 THEN prefs.defaultLevel ELSE t4
    IN  Min(TopLevel, t5)

\* Mutant: a superior addressee raises the level to 5, not to 4.
determineTargetLevelSuperiorTop(context, options, prefs) ==
  IF options.level # NoLevel /\ options.level >= 1 /\ options.level <= TopLevel
  THEN options.level
  ELSE
    LET t0 == BaseLevel
        t1 == IF context.relationship = "superior" THEN Max(t0, TopLevel)
              ELSE IF context.relationship = "subordinate" THEN Max(t0, 2)
              ELSE t0
        t2 == IF context.urgency = "urgent" THEN Max(t1, 3) ELSE t1
        t3 == IF context.situation = "business" THEN Max(t2, 3) ELSE t2
        t4 == IF context.formalityLevel = "very-casual" THEN Max(t3, 4) ELSE t3
        t5 == IF prefs.defaultLevel # 0 THEN Max(t4, prefs.defaultLevel) ELSE t4
    IN  Min(TopLevel, t5)

determineTargetLevel(context, options, prefs) ==
  IF options.level # NoLevel /\ options.level >= 1 /\ options.level <= TopLevel
  THEN options.level
  ELSE
    LET t0 == BaseLevel
        t1 == IF context.relationship = "superior" THEN Max(t0, 4)
              ELSE IF context.relationship = "subordinate" THEN Max(t0, 2)
              ELSE t0
        t2 == IF context.urgency = "urgent" THEN Max(t1, 3) ELSE t1
        t3 == IF context.situation = "business" THEN Max(t2, 3) ELSE t2
        t4 == IF context.formalityLevel = "very-casual" THEN Max(t3, 4) ELSE t3
        t5 == IF prefs.defaultLevel # 0 THEN Max(t4, prefs.defaultLevel) ELSE t4
    IN  Min(TopLevel, t5)

(***************************************************************************)
(* SentenceGenerator.generateVariations: one candidate per level 2..5 and  *)
(* the two style variants at the base level.  Only the levels are kept;    *)
(* the texts are random and enter through the lengths lens.                *)
(***************************************************************************)
\* Mutant: the loop over the levels starts at level 1.
generateVariationsFromOne(baseLevel) == <<1, 2, 3, 4, 5, baseLevel, baseLevel>>

generateVariations(baseLevel) == <<2, 3, 4, 5, baseLevel, baseLevel>>

(***************************************************************************)
(* EnhancedConversionEngine.generateConversions.  lens[i] is the length of *)
(* the i-th generated text (the generators choose phrases at random).      *)
(***************************************************************************)
generateConversions(context, targetLevel, lens) ==
  LET word == <<[approach |-> "word-level", level |-> targetLevel,
                 confidence |-> 75, textLen |-> lens[1]]>>
      sentence == <<[approach |-> "sentence-generation", level |-> targetLevel,
                     confidence |-> 90, textLen |-> lens[2]]>>
      levels == generateVariations(targetLevel)
      variations == [i \in 1..Len(levels) |->
                       [approach |-> "level-variation", level |-> levels[i],
                        confidence |-> 80, textLen |-> lens[2 + i]]]
      optimized == IF context.situation # "general"
                   THEN <<[approach |-> "context-optimized", level |-> targetLevel,
                           confidence |-> 85, textLen |-> lens[3 + Len(levels)]]>>
                   ELSE <<>>
  IN  word \o sentence \o variations \o optimized

(***************************************************************************)
(* EnhancedConversionEngine.scoreConversion                                *)
(***************************************************************************)
\* Mutant: the level difference is taken against the default level 3, not the target.
scoreConversionAgainstBase(conversion, context, options, prefs) ==
  LET base == conversion.confidence
      s1 == IF conversion.approach = "sentence-generation" THEN base + 10 ELSE base
      s2 == IF conversion.approach = "context-optimized" THEN s1 + 15 ELSE s1
      s3 == s2 - 5 * Abs(conversion.level - BaseLevel)
  IN  IF context.issues > 0 /\ conversion.textLen > context.issues * 20
      THEN s3 + 20
      ELSE s3

scoreConversion(conversion, context, options, prefs) ==
  LET base == conversion.confidence
      s1 == IF conversion.approach = "sentence-generation" THEN base + 10 ELSE base
      s2 == IF conversion.approach = "context-optimized" THEN s1 + 15 ELSE s1
      targetLevel == determineTargetLevel(context, options, prefs)
      s3 == s2 - 5 * Abs(conversion.level - targetLevel)
  IN  IF context.issues > 0 /\ conversion.textLen > context.issues * 20
      THEN s3 + 20
      ELSE s3

(***************************************************************************)
(* Array.prototype.sort((a, b) => b.score - a.score): a stable sort, by    *)
(* descending score.                                                       *)
(***************************************************************************)
\* Mutant: an unstable sort, which puts a later candidate before an equal earlier one.
RECURSIVE InsertByScoreUnstable(_, _)
InsertByScoreUnstable(sorted, c) ==
  IF sorted = <<>> THEN <<c>>
  ELSE IF Head(sorted).score > c.score
       THEN <<Head(sorted)>> \o InsertByScoreUnstable(Tail(sorted), c)
       ELSE <<c>> \o sorted

RECURSIVE InsertByScore(_, _)
InsertByScore(sorted, c) ==
  IF sorted = <<>> THEN <<c>>
  ELSE IF Head(sorted).score >= c.score
       THEN <<Head(sorted)>> \o InsertByScore(Tail(sorted), c)
       ELSE <<c>> \o sorted

RECURSIVE SortByScore(_)
SortByScore(s) ==
  IF s = <<>> THEN <<>>
  ELSE InsertByScore(SortByScore(SubSeq(s, 1, Len(s) - 1)), s[Len(s)])

\* Array.prototype.find: the first element with the approach, or <<>> for undefined
FindApproach(conversions, approach) ==
  LET hits == {i \in 1..Len(conversions) : conversions[i].approach = approach}
  IN  IF hits = {} THEN <<>>
      ELSE <<conversions[CHOOSE i \in hits : \A j \in hits : i <= j]>>

(***************************************************************************)
(* EnhancedConversionEngine.selectBestConversion                           *)
(***************************************************************************)
selectBestConversion(conversions, context, options, prefs) ==
  LET preferred == IF options.preferredApproach # NoApproach
                   THEN FindApproach(conversions, options.preferredApproach)
                   ELSE <<>>
      scored == [i \in 1..Len(conversions) |->
                   [approach |-> conversions[i].approach,
                    level |-> conversions[i].level,
                    confidence |-> conversions[i].confidence,
                    textLen |-> conversions[i].textLen,
                    score |-> scoreConversion(conversions[i], context, options, prefs)]]
  IN  IF preferred # <<>>
      THEN preferred[1]
      ELSE SortByScore(scored)[1]

(***************************************************************************)
(* EnhancedConversionEngine.updateUserPreferences                          *)
(***************************************************************************)
RECURSIVE CountOf(_, _)
CountOf(s, x) ==
  IF s = <<>> THEN 0
  ELSE (IF Head(s) = x THEN 1 ELSE 0) + CountOf(Tail(s), x)

\* Object.keys(approachCounts): the approaches in the order they first occur
RECURSIVE KeysInOrder(_)
KeysInOrder(s) ==
  IF s = <<>> THEN <<>>
  ELSE LET init == KeysInOrder(SubSeq(s, 1, Len(s) - 1))
           last == s[Len(s)]
       IN  IF CountOf(init, last) > 0 THEN init ELSE Append(init, last)

\* keys.reduce((a, b) => counts[a] > counts[b] ? a : b) over the approaches s
RECURSIVE ReduceMostUsed(_, _, _)
ReduceMostUsed(acc, keys, s) ==
  IF keys = <<>> THEN acc
  ELSE ReduceMostUsed(IF CountOf(s, acc) > CountOf(s, Head(keys)) THEN acc ELSE Head(keys),
                      Tail(keys), s)

MostUsedApproach(approaches) ==
  LET keys == KeysInOrder(approaches)
  IN  ReduceMostUsed(Head(keys), Tail(keys), approaches)

\* Mutant: the preferences are learned from the first record on.
updateUserPreferencesEveryCall(history, prefs) ==
  LET recent == SliceLast(history, RecentLevels)
      recentLevels == [i \in 1..Len(recent) |-> recent[i].level]
      lastTen == SliceLast(history, RecentApproaches)
      approaches == [i \in 1..Len(lastTen) |-> lastTen[i].approach]
  IN  [defaultLevel |-> RoundDiv(SumSeq(recentLevels), Len(recentLevels)),
       preferredApproach |-> MostUsedApproach(approaches)]

\* Mutant: the mean is taken over the whole history and the count over all of it.
updateUserPreferencesWholeHistory(history, prefs) ==
  IF Len(history) >= RecentLevels
  THEN LET levels == [i \in 1..Len(history) |-> history[i].level]
           approaches == [i \in 1..Len(history) |-> history[i].approach]
       IN  [defaultLevel |-> RoundDiv(SumSeq(levels), Len(levels)),
            preferredApproach |-> MostUsedApproach(approaches)]
  ELSE prefs

updateUserPreferences(history, prefs) ==
  IF Len(history) >= RecentLevels
  THEN LET recent == SliceLast(history, RecentLevels)
           recentLevels == [i \in 1..Len(recent) |-> recent[i].level]
           lastTen == SliceLast(history, RecentApproaches)
           approaches == [i \in 1..Len(lastTen) |-> lastTen[i].approach]
       IN  [defaultLevel |-> RoundDiv(SumSeq(recentLevels), Len(recentLevels)),
            preferredApproach |-> MostUsedApproach(approaches)]
  ELSE prefs

(***************************************************************************)
(* EnhancedConversionEngine.storeConversion: the history after the push    *)
(* and the cut to the last 100 records.                                    *)
(***************************************************************************)
\* Mutant: at the cap the new record is dropped and the old records stay.
storeConversionKeepOldest(history, record) ==
  LET pushed == Append(history, record)
  IN  IF Len(pushed) > HistoryCap THEN SubSeq(pushed, 1, HistoryCap) ELSE pushed

storeConversion(history, record) ==
  LET pushed == Append(history, record)
  IN  IF Len(pushed) > HistoryCap THEN SliceLast(pushed, HistoryCap) ELSE pushed

(***************************************************************************)
(* EnhancedConversionEngine.createFallbackResponse                         *)
(***************************************************************************)
\* Mutant: the fallback echoes the input and keeps the default result level.
createFallbackResponseEcho(originalText, message) ==
  [original |-> originalText,
   converted |-> originalText,
   level |-> BaseLevel,
   variations |-> <<>>,
   suggestions |-> <<"error">>,
   confidence |-> FallbackConfidence,
   engine |-> "fallback",
   error |-> message]

createFallbackResponse(originalText, message) ==
  [original |-> originalText,
   converted |-> originalText \o FallbackSuffix,
   level |-> FallbackLevel,
   variations |-> <<>>,
   suggestions |-> <<"error">>,
   confidence |-> FallbackConfidence,
   engine |-> "fallback",
   error |-> message]

(***************************************************************************)
(* EnhancedConversionEngine.generateSuggestions, as far as the context     *)
(* decides it: one context suggestion per detected issue and the level     *)
(* hint.  The suggestions that depend on the words of the chosen text are  *)
(* left out.                                                               *)
(***************************************************************************)
generateSuggestions(selected, context) ==
  [i \in 1..context.issues |-> "context"]
    \o (IF selected.level < 4 /\ context.relationship = "superior"
        THEN <<"level">> ELSE <<>>)

(***************************************************************************)
(* The object convertText returns on success.  The chosen text itself is   *)
(* random; its length stands for it.                                       *)
(***************************************************************************)
SuccessResponse(originalText, selected, conversions, context) ==
  [original |-> originalText,
   convertedLen |-> selected.textLen,
   level |-> selected.level,
   variations |-> conversions,
   suggestions |-> generateSuggestions(selected, context),
   confidence |-> IF selected.confidence # 0 THEN selected.confidence
                  ELSE DefaultConfidence,
   engine |-> "enhanced-v2.0"]

(***************************************************************************)
(* EnhancedConversionEngine.convertText, up to its await: steps 1 to 3.    *)
(* A null options object makes step 2 throw a TypeError; the catch block   *)
(* answers with the fallback response and nothing is stored.               *)
(***************************************************************************)
ConvertStart(item) ==
  LET id == calls + 1
  IN  /\ calls' = id
      /\ lastOp' = "convertStart"
      /\ IF ~item.options.present
         THEN /\ lastResult' =
                   [id |-> id, threw |-> TRUE, settled |-> "fulfilled",
                    text |-> item.text, options |-> item.options,
                    message |-> NullOptionsMessage,
                    response |-> createFallbackResponse(item.text, NullOptionsMessage)]
              /\ pending' = pending
         ELSE LET targetLevel == determineTargetLevel(item.context, item.options,
                                                      userPreferences)
                  conversions == generateConversions(item.context, targetLevel, item.lens)
              IN  /\ pending' = Append(pending,
                                       [id |-> id, text |-> item.text,
                                        context |-> item.context,
                                        options |-> item.options,
                                        prefsAtStart |-> userPreferences,
                                        targetLevel |-> targetLevel,
                                        conversions |-> conversions])
                  /\ lastResult' = lastResult
      /\ UNCHANGED <<workload, conversionHistory, userPreferences, stored, feedbackVars,
                     componentVars, converterVars>>

(***************************************************************************)
(* EnhancedConversionEngine.convertText, after its await: steps 4 to 6 and *)
(* the result.                                                             *)
(***************************************************************************)
ConvertResume ==
  /\ pending # <<>>
  /\ LET frame == Head(pending)
         selected == selectBestConversion(frame.conversions, frame.context,
                                          frame.options, userPreferences)
         record == [id |-> frame.id, level |-> selected.level,
                    approach |-> selected.approach]
         history == storeConversion(conversionHistory, record)
     IN  /\ conversionHistory' = history
         /\ userPreferences' = updateUserPreferences(history, userPreferences)
         /\ lastResult' =
              [id |-> frame.id, threw |-> FALSE, settled |-> "fulfilled",
               text |-> frame.text, options |-> frame.options,
               context |-> frame.context,
               targetLevel |-> frame.targetLevel,
               prefsAtSelect |-> userPreferences,
               selected |-> selected,
               response |-> SuccessResponse(frame.text, selected, frame.conversions,
                                            frame.context)]
  /\ pending' = Tail(pending)
  /\ stored' = Append(stored, [id |-> Head(pending).id,
                               level |-> lastResult'.selected.level,
                               approach |-> lastResult'.selected.approach])
  /\ lastOp' = "convertResume"
  /\ UNCHANGED <<workload, calls, feedbackVars, componentVars, converterVars>>

(***************************************************************************)
(* Texts of the feedback learner.  A character is written as the name of   *)
(* its reading, a katakana in capitals.  Every sample                      *)
(* text is one line: `.` of a regular expression matches each character.   *)
(***************************************************************************)
Kanji == {"nega", "oso", "iri", "kyou", "shuku", "mou", "wake", "kaku", "nin"}

Whitespace == {"sp"}

Digit == {"0", "1", "2", "3", "4", "5", "6", "7", "8", "9"}

Punctuation == {"maru", "ten"}

Hiragana ==
  {"a", "i", "u", "e", "o", "ka", "ki", "ku", "ke", "ko", "sa", "shi", "su", "se", "so",
   "ta", "chi", "tsu", "te", "to", "na", "ni", "nu", "ne", "no", "ha", "hi", "fu", "he",
   "ho", "ma", "mi", "mu", "me", "mo", "ya", "yu", "yo", "ra", "ri", "ru", "re", "ro",
   "wa", "wo", "n", "ga", "gi", "gu", "ge", "go", "za", "ji", "zu", "ze", "zo", "da",
   "dji", "dzu", "de", "do", "ba", "bi", "bu", "be", "bo", "pa", "pi", "pu", "pe", "po",
   "small_ya", "small_yu", "small_yo", "small_tsu", "small_a", "small_i", "small_u",
   "small_e", "small_o"}

Katakana ==
  {"A", "I", "U", "E", "O", "KA", "KI", "KU", "KE", "KO", "SA", "SHI", "SU", "SE", "SO",
   "TA", "CHI", "TSU", "TE", "TO", "NA", "NI", "NU", "NE", "NO", "HA", "HI", "FU", "HE",
   "HO", "MA", "MI", "MU", "ME", "MO", "YA", "YU", "YO", "RA", "RI", "RU", "RE", "RO",
   "WA", "WO", "N", "GA", "GI", "GU", "GE", "GO", "ZA", "JI", "ZU", "ZE", "ZO", "DA",
   "DJI", "DZU", "DE", "DO", "BA", "BI", "BU", "BE", "BO", "PA", "PI", "PU", "PE", "PO",
   "small_YA", "small_YU", "small_YO", "small_TSU", "small_A", "small_I", "small_U",
   "small_E", "small_O", "VU", "small_KE"}

\* [ぁ-んァ-ヶー]
IsKana(ch) == ch \in Hiragana \cup Katakana \cup {"long"}

\* part stands in text at position i
MatchesAt(text, i, part) ==
  /\ i >= 1
  /\ i + Len(part) - 1 <= Len(text)
  /\ SubSeq(text, i, i + Len(part) - 1) = part

\* String.prototype.includes, RegExp.prototype.test of a literal
Contains(text, part) == \E i \in 1..Len(text) : MatchesAt(text, i, part)

\* /a.*b.*c/.test(text)
ContainsInOrder(text, a, b, c) ==
  \E i \in 1..Len(text) :
    /\ MatchesAt(text, i, a)
    /\ \E j \in (i + Len(a))..Len(text) :
         /\ MatchesAt(text, j, b)
         /\ \E k \in (j + Len(b))..Len(text) : MatchesAt(text, k, c)

\* /[ぁ-んァ-ヶー]+part/.test(text)
ContainsAfterKana(text, part) ==
  \E i \in 2..Len(text) : IsKana(text[i - 1]) /\ MatchesAt(text, i, part)

\* text.match(/(.{3,})\1+/g): the matches, of which the source reads the first.
\* The leftmost start wins; there the group is the longest one followed by a copy
\* of itself, and \1+ takes every further copy.
RepeatsAt(text, i, len) ==
  /\ len >= 3
  /\ i + 2 * len - 1 <= Len(text)
  /\ SubSeq(text, i, i + len - 1) = SubSeq(text, i + len, i + 2 * len - 1)

CopiesAt(text, i, len) ==
  LET Copy(k) == SubSeq(text, i + k * len, i + (k + 1) * len - 1) = SubSeq(text, i, i + len - 1)
      fits == {k \in 1..Len(text) : i + (k + 1) * len - 1 <= Len(text)}
  IN  CHOOSE k \in fits :
        /\ \A m \in 1..k : Copy(m)
        /\ (k + 1 \in fits => ~Copy(k + 1))

FirstRepetition(text) ==
  LET starts == {i \in 1..Len(text) : \E len \in 3..(Len(text) \div 2) : RepeatsAt(text, i, len)}
  IN  IF starts = {} THEN <<>>
      ELSE LET i == CHOOSE x \in starts : \A y \in starts : x <= y
               len == CHOOSE l \in 3..(Len(text) \div 2) :
                        /\ RepeatsAt(text, i, l)
                        /\ \A m \in (l + 1)..(Len(text) \div 2) : ~RepeatsAt(text, i, m)
           IN  <<SubSeq(text, i, i + len * (CopiesAt(text, i, len) + 1) - 1)>>

\* text.split(/\s+/)
RECURSIVE SplitWords(_)
SplitWords(text) ==
  LET spaces == {i \in 1..Len(text) : text[i] \in Whitespace}
  IN  IF spaces = {} THEN <<text>>
      ELSE LET first == CHOOSE i \in spaces : \A j \in spaces : i <= j
               rest == {j \in first..Len(text) : text[j] \notin Whitespace}
               next == IF rest = {} THEN Len(text) + 1
                       ELSE CHOOSE j \in rest : \A m \in rest : j <= m
           IN  <<SubSeq(text, 1, first - 1)>> \o SplitWords(SubSeq(text, next, Len(text)))

\* The decimal digits of a natural number
RECURSIVE Digits(_)
Digits(n) ==
  LET d == <<"0", "1", "2", "3", "4", "5", "6", "7", "8", "9">>[(n % 10) + 1]
  IN  IF n < 10 THEN <<d>> ELSE Append(Digits(n \div 10), d)

(***************************************************************************)
(* The phrases the feedback learner looks for.                             *)
(***************************************************************************)
Osoreirimasu == <<"oso", "re", "iri", "ri", "ma", "su">>
Kyoushuku == <<"kyou", "shuku">>
Moushiwake == <<"mou", "shi", "wake">>
Itadake == <<"i", "ta", "da", "ke">>
Itadakemasudeshouka == <<"i", "ta", "da", "ke", "ma", "su", "de", "shi", "small_yo", "u", "ka">>
Onegai == <<"o", "nega", "i">>
Onegaishimasu == <<"o", "nega", "i", "shi", "ma", "su">>
Desu == <<"de", "su">>
Masu == <<"ma", "su">>
Yan == <<"ya", "n">>
Yade == <<"ya", "de">>
Dabe == <<"da", "be">>
Osoreirimasuga == <<"oso", "re", "iri", "ri", "ma", "su", "ga">>
Sumimasenga == <<"su", "mi", "ma", "se", "n", "ga">>
Yoroshiku == <<"yo", "ro", "shi", "ku">>
YoroshikuOnegaiitashimasu == Yoroshiku \o <<"o", "nega", "i", "i", "ta", "shi", "ma", "su">>
YoroshikuOnegaishimasu == Yoroshiku \o Onegaishimasu

(***************************************************************************)
(* FeedbackLearning.identifyProblematicPatterns: the signatures, in the    *)
(* order they are pushed.  A signature is a type and a pattern; a pattern  *)
(* is a sequence of characters or of words.  converted.length /            *)
(* original.length is Infinity for an empty original and a non-empty       *)
(* converted text, and NaN (greater than nothing) when both are empty.     *)
(***************************************************************************)
Signature(type, pattern) == [type |-> type, pattern |-> pattern]

identifyProblematicPatterns(original, converted) ==
  LET repetitionMatches == FirstRepetition(converted)
  IN  (IF ContainsInOrder(converted, Osoreirimasu, Kyoushuku, Moushiwake)
       THEN <<Signature("excessive_politeness", <<"multiple_apologies">>)>>
       ELSE <<>>)
      \o
      (IF repetitionMatches # <<>>
       THEN <<Signature("unnatural_repetition", repetitionMatches[1])>>
       ELSE <<>>)
      \o
      (IF ContainsAfterKana(converted, Itadakemasudeshouka)
       THEN <<Signature("incomplete_conversion", <<"casual_formal_mix">>)>>
       ELSE <<>>)
      \o
      (IF Len(original) = 0
       THEN IF Len(converted) > 0
            THEN <<Signature("excessive_expansion", <<"length_ratio_", "Infinity">>)>>
            ELSE <<>>
       ELSE IF Len(converted) > 4 * Len(original)
            THEN <<Signature("excessive_expansion",
                             <<"length_ratio_">> \o Digits(Len(converted) \div Len(original)))>>
            ELSE <<>>)

(***************************************************************************)
(* FeedbackLearning.identifySuccessfulPatterns                             *)
(***************************************************************************)
hasAppropriatePolitenesss(text) ==
  /\ \/ Contains(text, Itadake)
     \/ Contains(text, Onegai)
     \/ Contains(text, Kyoushuku)
     \/ Contains(text, Moushiwake)
  /\ ~ContainsInOrder(text, Osoreirimasu, Kyoushuku, Moushiwake)

hasNaturalFlow(text) ==
  ~(\/ Contains(text, Desu \o <<"maru", "maru">>)
    \/ Contains(text, Masu \o <<"maru">> \o Desu))

identifySuccessfulPatterns(original, converted) ==
  (IF /\ Contains(original, Yan) \/ Contains(original, Yade) \/ Contains(original, Dabe)
      /\ Contains(converted, Desu) \/ Contains(converted, Masu)
   THEN <<Signature("dialect_conversion", <<"successful_standardization">>)>>
   ELSE <<>>)
  \o
  (IF hasAppropriatePolitenesss(converted)
   THEN <<Signature("politeness_level", <<"appropriate_keigo">>)>>
   ELSE <<>>)
  \o
  (IF hasNaturalFlow(converted)
   THEN <<Signature("sentence_flow", <<"natural_transition">>)>>
   ELSE <<>>)

(***************************************************************************)
(* FeedbackLearning.analyzeCorrectionDifferences and findPhraseDifferences *)
(***************************************************************************)
Correction(type, from, to) == [type |-> type, from |-> from, to |-> to]

PhraseCorrections ==
  <<[from |-> Itadakemasudeshouka, to |-> Onegaishimasu],
    [from |-> Osoreirimasuga, to |-> Sumimasenga],
    [from |-> YoroshikuOnegaiitashimasu, to |-> YoroshikuOnegaishimasu]>>

RECURSIVE PhraseDifferencesFrom(_, _, _)
PhraseDifferencesFrom(i, aiOutput, userCorrection) ==
  IF i > Len(PhraseCorrections) THEN <<>>
  ELSE (IF /\ Contains(aiOutput, PhraseCorrections[i].from)
           /\ Contains(userCorrection, PhraseCorrections[i].to)
        THEN <<Correction("phrase_correction", PhraseCorrections[i].from,
                          PhraseCorrections[i].to)>>
        ELSE <<>>)
       \o PhraseDifferencesFrom(i + 1, aiOutput, userCorrection)

findPhraseDifferences(aiOutput, userCorrection) ==
  PhraseDifferencesFrom(1, aiOutput, userCorrection)

RECURSIVE WordSubstitutionsFrom(_, _, _)
WordSubstitutionsFrom(i, aiWords, userWords) ==
  IF i > Max(Len(aiWords), Len(userWords)) THEN <<>>
  ELSE LET aiWord == IF i <= Len(aiWords) THEN aiWords[i] ELSE <<>>
           userWord == IF i <= Len(userWords) THEN userWords[i] ELSE <<>>
       IN  (IF aiWord # userWord /\ aiWord # <<>> /\ userWord # <<>>
            THEN <<Correction("word_substitution", aiWord, userWord)>>
            ELSE <<>>)
           \o WordSubstitutionsFrom(i + 1, aiWords, userWords)

analyzeCorrectionDifferences(aiOutput, userCorrection) ==
  WordSubstitutionsFrom(1, SplitWords(aiOutput), SplitWords(userCorrection))
    \o findPhraseDifferences(aiOutput, userCorrection)

(***************************************************************************)
(* The three extract...Patterns methods.  learningPatterns maps a key,     *)
(* `${kind}_${type}_${pattern}`, to its pattern; `to` is empty but for a   *)
(* correction.  Confidences are in hundredths.                             *)
(***************************************************************************)
NegativeStep == 10
PositiveStep == 15
CorrectionStep == 20
PatternCap == 95
CorrectionCap == 90

PatternKey(kind, type, pattern) == <<kind, type, pattern>>

NewPattern(kind, type, pattern, to) ==
  [type |-> kind, pattern |-> pattern, patternType |-> type, to |-> to,
   occurrences |-> 0, contexts |-> <<>>, confidence |-> 0]

\* Mutant: the confidence wraps around at the cap instead of staying there.
LearnPatternWrapping(patterns, key, new, context, step, cap) ==
  LET existing == IF key \in DOMAIN patterns THEN patterns[key] ELSE new
      occurrences == existing.occurrences + 1
      updated == [existing EXCEPT !.occurrences = occurrences,
                                  !.contexts = Append(@, context),
                                  !.confidence = (occurrences * step) % (cap + 1)]
  IN  [k \in DOMAIN patterns \cup {key} |-> IF k = key THEN updated ELSE patterns[k]]

\* has / set / get, occurrences++, contexts.push, confidence = Math.min(cap, ...)
LearnPattern(patterns, key, new, context, step, cap) ==
  LET existing == IF key \in DOMAIN patterns THEN patterns[key] ELSE new
      occurrences == existing.occurrences + 1
      updated == [existing EXCEPT !.occurrences = occurrences,
                                  !.contexts = Append(@, context),
                                  !.confidence = Min(cap, occurrences * step)]
  IN  [k \in DOMAIN patterns \cup {key} |-> IF k = key THEN updated ELSE patterns[k]]

RECURSIVE LearnSignatures(_, _, _, _, _, _)
LearnSignatures(patterns, kind, found, context, step, cap) ==
  IF found = <<>> THEN patterns
  ELSE LET sig == Head(found)
           key == PatternKey(kind, sig.type, sig.pattern)
       IN  LearnSignatures(
             LearnPattern(patterns, key, NewPattern(kind, sig.type, sig.pattern, <<>>),
                          context, step, cap),
             kind, Tail(found), context, step, cap)

\* Mutant: the negative patterns gain confidence at the rate of the positive ones.
extractNegativeFeedbackPatternsFast(patterns, feedback) ==
  LearnSignatures(patterns, "negative",
                  identifyProblematicPatterns(feedback.originalText, feedback.convertedText),
                  feedback.context, PositiveStep, PatternCap)

extractNegativeFeedbackPatterns(patterns, feedback) ==
  LearnSignatures(patterns, "negative",
                  identifyProblematicPatterns(feedback.originalText, feedback.convertedText),
                  feedback.context, NegativeStep, PatternCap)

extractPositiveFeedbackPatterns(patterns, feedback) ==
  LearnSignatures(patterns, "positive",
                  identifySuccessfulPatterns(feedback.originalText, feedback.convertedText),
                  feedback.context, PositiveStep, PatternCap)

RECURSIVE LearnCorrections(_, _, _)
LearnCorrections(patterns, corrections, context) ==
  IF corrections = <<>> THEN patterns
  ELSE LET c == Head(corrections)
           key == PatternKey("correction", c.type, c.from)
       IN  LearnCorrections(
             LearnPattern(patterns, key, NewPattern("correction", c.type, c.from, c.to),
                          context, CorrectionStep, CorrectionCap),
             Tail(corrections), context)

extractCorrectionPatterns(patterns, feedback) ==
  LearnCorrections(patterns,
                   analyzeCorrectionDifferences(feedback.convertedText,
                                                feedback.userCorrection),
                   feedback.context)

(***************************************************************************)
(* FeedbackLearning.updateUserPreferences.  The result says whether the    *)
(* method threw and holds the preferences as the method left them.  It     *)
(* throws a TypeError on feedback.options.level when the feedback has no   *)
(* options and a rating of 4 or more, and on ....push when the context     *)
(* names a property every object inherits, which is found instead of a     *)
(* missing entry of contextPreferences.                                    *)
(***************************************************************************)
InitialPreferredLevel == 3
DefaultFeedbackLevel == 3
LowRating == 2
HighRating == 4

NoContext == "undefined"

ObjectPrototypeKeys == {"constructor", "toString", "valueOf", "hasOwnProperty"}

UndefinedOptions == [present |-> FALSE, level |-> NoLevel, preferredApproach |-> NoApproach]

NewLearnerPreferences ==
  [preferredLevel |-> InitialPreferredLevel, preferredStyle |-> "balanced",
   contextPreferences |-> <<>>]

FeedbackUpdateUserPreferences(prefs, feedback) ==
  LET p0 == IF "default" \in DOMAIN prefs THEN prefs["default"] ELSE NewLearnerPreferences
      Stored(p) == [u \in {"default"} |-> p]
      liked == feedback.userRating >= HighRating
      disliked == feedback.userRating <= LowRating
      targetLevel == IF feedback.options.level = NoLevel THEN DefaultFeedbackLevel
                     ELSE feedback.options.level
      p1 == IF liked
            THEN [p0 EXCEPT !.preferredLevel = RoundDiv(p0.preferredLevel + targetLevel, 2)]
            ELSE p0
      context == IF feedback.context = NoContext THEN "general" ELSE feedback.context
      before == p1.contextPreferences
      created == [c \in DOMAIN before \cup {context} |->
                    IF c \in DOMAIN before THEN before[c]
                    ELSE [successfulPatterns |-> <<>>, problematicPatterns |-> <<>>]]
      pushed == [created EXCEPT
                   ![context] =
                     IF disliked
                     THEN [@ EXCEPT !.problematicPatterns = Append(@, feedback.timestamp)]
                     ELSE IF liked
                          THEN [@ EXCEPT !.successfulPatterns = Append(@, feedback.timestamp)]
                          ELSE @]
  IN  IF liked /\ ~feedback.options.present
      THEN [threw |-> TRUE, preferences |-> Stored(p0)]
      ELSE IF context \in ObjectPrototypeKeys
           THEN [threw |-> liked \/ disliked, preferences |-> Stored(p1)]
           ELSE [threw |-> FALSE,
                 preferences |-> Stored([p1 EXCEPT !.contextPreferences = pushed])]

(***************************************************************************)
(* FeedbackLearning.processFeedback: the patterns, the preferences and the *)
(* processed flag it leaves.  Its catch block swallows what                *)
(* updateUserPreferences throws.                                           *)
(***************************************************************************)
NoCorrection == <<>>

processFeedback(patterns, prefs, feedback) ==
  LET rated == IF feedback.userRating <= LowRating
               THEN extractNegativeFeedbackPatterns(patterns, feedback)
               ELSE IF feedback.userRating >= HighRating
                    THEN extractPositiveFeedbackPatterns(patterns, feedback)
                    ELSE patterns
      corrected == IF feedback.userCorrection # NoCorrection
                   THEN extractCorrectionPatterns(rated, feedback)
                   ELSE rated
      updated == FeedbackUpdateUserPreferences(prefs, feedback)
  IN  [patterns |-> corrected, preferences |-> updated.preferences,
       processed |-> ~updated.threw]

(***************************************************************************)
(* FeedbackLearning.generateFeedbackId: the first 12 characters of the     *)
(* base64 text are the first 9 bytes of the UTF-8 encoding of              *)
(* originalText + convertedText + timestamp.  A digit or a blank is one    *)
(* byte, every other character of the texts is three.  The id is written   *)
(* as the characters it covers, each with the number of its bytes taken.   *)
(***************************************************************************)
IdBytes == 9

\* Date.now() at the first reading of the clock, without its last three digits
EpochDigits == <<"1", "7", "3", "0", "0", "0", "0", "0", "0", "0">>

TimestampDigits(t) ==
  EpochDigits \o (IF t < 10 THEN <<"0", "0">> ELSE IF t < 100 THEN <<"0">> ELSE <<>>)
              \o Digits(t)

ByteLen(ch) == IF ch \in Digit \cup Whitespace THEN 1 ELSE 3

RECURSIVE BytePrefix(_, _)
BytePrefix(content, budget) ==
  IF budget = 0 \/ content = <<>> THEN <<>>
  ELSE LET taken == Min(budget, ByteLen(Head(content)))
       IN  <<<<Head(content), taken>>>> \o BytePrefix(Tail(content), budget - taken)

generateFeedbackId(originalText, convertedText, timestamp) ==
  BytePrefix(originalText \o convertedText \o TimestampDigits(timestamp), IdBytes)

getRatingCategory(rating) ==
  IF rating >= HighRating THEN "positive"
  ELSE IF rating <= LowRating THEN "negative"
  ELSE "neutral"

calculateFeedbackMetrics(payload) ==
  [textLength |-> Len(payload.originalText),
   conversionRatio |-> <<Len(payload.convertedText), Len(payload.originalText)>>,
   hasCorrection |-> payload.userCorrection # NoCorrection,
   ratingCategory |-> getRatingCategory(payload.userRating)]

(***************************************************************************)
(* FeedbackLearning.collectFeedback, with the timestamp left to Date.now() *)
(* and persistFeedback in a browser.                                       *)
(***************************************************************************)
CollectFeedback(payload) ==
  \E tick \in {0, 1} :
    LET timestamp == clock + tick
        feedbackId == generateFeedbackId(payload.originalText, payload.convertedText,
                                         timestamp)
        feedback == [id |-> feedbackId,
                     originalText |-> payload.originalText,
                     convertedText |-> payload.convertedText,
                     userRating |-> payload.userRating,
                     userCorrection |-> payload.userCorrection,
                     context |-> payload.context,
                     options |-> payload.options,
                     timestamp |-> timestamp,
                     feedbackType |-> "rating",
                     processed |-> FALSE,
                     qualityMetrics |-> calculateFeedbackMetrics(payload)]
        learned == processFeedback(learningPatterns, learnerPreferences, feedback)
        kept == [feedback EXCEPT !.processed = learned.processed]
    IN  /\ timestamp <= MaxClock
        /\ clock' = timestamp
        /\ feedbackData' = [i \in DOMAIN feedbackData \cup {feedbackId} |->
                              IF i = feedbackId THEN kept ELSE feedbackData[i]]
        /\ learningPatterns' = learned.patterns
        /\ learnerPreferences' = learned.preferences
        /\ localStorage' = [feedback |-> feedbackData', patterns |-> learningPatterns',
                            preferences |-> learnerPreferences']
        /\ submitted' = submitted + 1
        /\ feedbackLog' = Append(feedbackLog, payload)
        /\ lastOp' = "collectFeedback"
        /\ UNCHANGED <<engineVars, script, componentVars, converterVars>>

(***************************************************************************)
(* FeedbackLearning.clearLearningData                                      *)
(***************************************************************************)
ClearLearningData ==
  /\ feedbackData' = <<>>
  /\ learningPatterns' = <<>>
  /\ learnerPreferences' = <<>>
  /\ localStorage' = <<>>
  /\ feedbackLog' = <<>>
  /\ lastOp' = "clearLearningData"
  /\ UNCHANGED <<engineVars, script, clock, submitted, componentVars, converterVars>>

(***************************************************************************)
(* The inputs.  A context is what ContextAnalyzer.analyzeContext returned  *)
(* for the text, as far as the engine reads it; issues is the length of    *)
(* needsImprovement.issues.  An options object is absent (null) or holds a *)
(* level (NoLevel: none given) and a preferredApproach.                    *)
(***************************************************************************)
EmptyText == <<>>

\* A text of three characters, whichever they are
SampleText == <<"c1", "c2", "c3">>

ShortLen == 30
LongLen == 90

Context(relationship, urgency, situation, formalityLevel, issues) ==
  [relationship |-> relationship, urgency |-> urgency, situation |-> situation,
   formalityLevel |-> formalityLevel, issues |-> issues]

Options(level, preferredApproach) ==
  [present |-> TRUE, level |-> level, preferredApproach |-> preferredApproach]

NullOptions == [present |-> FALSE, level |-> NoLevel, preferredApproach |-> NoApproach]

\* The lengths of the nine generated texts: the word-level text, the sentence, the
\* four level variants, the two style variants, the context-optimized text.
Lens(word, sentence, variant, style, optimized) ==
  <<word, sentence, variant, variant, variant, variant, style, style, optimized>>

LensChoices ==
  {Lens(w, s, v, y, o) : w \in {ShortLen, LongLen}, s \in {ShortLen, LongLen},
                         v \in {ShortLen, LongLen}, y \in {ShortLen, LongLen},
                         o \in {ShortLen, LongLen}}

SelectContexts ==
  {Context(r, su[1], su[2], f, n) :
     r \in {"superior", "subordinate", "unknown"},
     su \in {<<"urgent", "business">>, <<"normal", "general">>},
     f \in {"very-casual", "neutral"},
     n \in {0, 2}}

SelectOptions ==
  {Options(l, a) : l \in 0..6,
                   a \in {NoApproach, "level-variation", "context-optimized", "fastest"}}
    \cup {NullOptions}

\* What analyzeContext returns for the empty text: no pattern matches, and the
\* issues are lacks_politeness_markers and too_brief.
EmptyTextContext == Context("unknown", "normal", "general", "neutral", 2)

SelectItems ==
  {[text |-> SampleText, context |-> c, options |-> o, lens |-> l] :
     c \in SelectContexts, o \in SelectOptions, l \in LensChoices}
  \cup
  {[text |-> EmptyText, context |-> EmptyTextContext, options |-> o, lens |-> l] :
     o \in SelectOptions, l \in LensChoices}

(***************************************************************************)
(* AITextConverter and RealTimeConverter after construction: empty caches  *)
(* and queues, no request running.  A result that does not exist (null, or *)
(* a promise that has not settled) is NoConversion.                        *)
(***************************************************************************)
NoConversion ==
  [original |-> <<>>, options |-> <<>>, provider |-> "none", confidence |-> 0,
   engine |-> "none", cached |-> FALSE, timestamp |-> 0]

NoDelivery == [kind |-> "none", text |-> <<>>, options |-> <<>>, fromCache |-> FALSE,
               result |-> NoConversion]

NoTraffic == [fill |-> 0, more |-> 0, activeProvider |-> "none", limiter |-> FALSE]

InitConverters ==
  /\ issued = 0
  /\ convertCalls = <<>>
  /\ streams = <<>>
  /\ rateLimitQueue = <<>>
  /\ currentRequests = 0
  /\ timers = 0
  /\ cache = <<>>
  /\ realtimeCache = <<>>
  /\ isConverting = FALSE
  /\ conversionQueue = <<>>
  /\ delivered = NoDelivery
  /\ cacheLog = <<>>
  /\ conversionLog = <<>>

(***************************************************************************)
(* The state after construction.                                           *)
(***************************************************************************)
loadUserPreferences == [defaultLevel |-> InitialDefaultLevel, preferredApproach |-> NoApproach]

InitEngine ==
  /\ calls = 0
  /\ pending = <<>>
  /\ conversionHistory = <<>>
  /\ userPreferences = loadUserPreferences
  /\ lastResult = NoResult
  /\ stored = <<>>

InitFeedback ==
  /\ clock = 0
  /\ feedbackData = <<>>
  /\ learningPatterns = <<>>
  /\ learnerPreferences = <<>>
  /\ localStorage = <<>>
  /\ submitted = 0
  /\ feedbackLog = <<>>

(***************************************************************************)
(* One call, on a new engine or on an engine that has converted five texts *)
(* at one explicit level d: each of those five calls chose the sentence    *)
(* candidate at level d, and the fifth made d the learned default level.   *)
(***************************************************************************)
LearnedHistory(d) ==
  [i \in 1..RecentLevels |-> [id |-> i, level |-> d, approach |-> "sentence-generation"]]

InitLearned(d) ==
  /\ calls = RecentLevels
  /\ pending = <<>>
  /\ conversionHistory = LearnedHistory(d)
  /\ userPreferences = [defaultLevel |-> d, preferredApproach |-> "sentence-generation"]
  /\ lastResult = NoResult
  /\ stored = LearnedHistory(d)

InitSelect ==
  /\ InitEngine \/ \E d \in 1..TopLevel : InitLearned(d)
  /\ workload \in {<<i>> : i \in SelectItems}
  /\ script = <<>>
  /\ InitFeedback
  /\ input = <<>>
  /\ output = <<>>
  /\ InitConverters
  /\ traffic = NoTraffic
  /\ lastOp = "init"

IssueOnce ==
  /\ lastOp = "init"
  /\ ConvertStart(workload[1])

NextSelect == IssueOnce \/ ConvertResume

SpecSelect == InitSelect /\ [][NextSelect]_vars

(***************************************************************************)
(* A long run of calls on a new engine, each call awaited before the next  *)
(* (as convertBatch does).  The workload is a few requests followed by a   *)
(* last request that is repeated.                                          *)
(***************************************************************************)
MixedLens == Lens(ShortLen, LongLen, LongLen, ShortLen, LongLen)

LongItems ==
  {[text |-> SampleText, context |-> c, options |-> o, lens |-> MixedLens] :
     c \in {Context("unknown", "normal", "general", "neutral", 0)},
     o \in {Options(1, NoApproach), Options(NoLevel, NoApproach),
            Options(4, "level-variation"), NullOptions}}
  \cup
  {[text |-> SampleText, context |-> c, options |-> o, lens |-> MixedLens] :
     c \in {Context("superior", "urgent", "business", "neutral", 2)},
     o \in {Options(5, NoApproach), Options(NoLevel, "context-optimized"),
            Options(NoLevel, "word-level")}}

Repeat(item, n) == [i \in 1..n |-> item]

LongWorkloads ==
  {Repeat(a, n) \o <<b>> : a \in LongItems, b \in LongItems, n \in {3, 7}}

ItemAt(k) == workload[Min(k, Len(workload))]

InitLong ==
  /\ InitEngine
  /\ workload \in LongWorkloads
  /\ script = <<>>
  /\ InitFeedback
  /\ input = <<>>
  /\ output = <<>>
  /\ InitConverters
  /\ traffic = NoTraffic
  /\ lastOp = "init"

IssueAwaited ==
  /\ calls < MaxLongCalls
  /\ pending = <<>>
  /\ ConvertStart(ItemAt(calls + 1))

NextLong == IssueAwaited \/ ConvertResume

SpecLong == InitLong /\ [][NextLong]_vars

(***************************************************************************)
(* The feedback learner alone.  The user submits the payloads of a script  *)
(* of one or two payloads over and over, and may reset the learner at any  *)
(* time.                                                                   *)
(***************************************************************************)
Payload(texts, rating, correction, context, options) ==
  [originalText |-> texts.original, convertedText |-> texts.converted,
   userRating |-> rating, userCorrection |-> correction,
   context |-> context, options |-> options]

\* アプデ, made over-long and half formal
ApudeTexts ==
  [original |-> <<"A", "PU", "DE">>,
   converted |-> <<"A", "small_TSU", "PU", "DE", "long", "TO", "shi", "te">>
                   \o Itadakemasudeshouka,
   correction |-> <<"A", "small_TSU", "PU", "DE", "long", "TO", "wo">> \o Onegaishimasu]

\* よろしく, with the request said twice
YoroshikuTexts ==
  [original |-> Yoroshiku,
   converted |-> Onegaishimasu \o Onegaishimasu,
   correction |-> YoroshikuOnegaishimasu]

\* すみません, with three apologies, four times as long
SumimasenTexts ==
  [original |-> <<"su", "mi", "ma", "se", "n">>,
   converted |-> Osoreirimasuga \o Kyoushuku \o <<"de", "su", "ga">> \o Moushiwake
                   \o <<"a", "ri", "ma", "se", "n">>,
   correction |-> Sumimasenga \o Onegaishimasu]

\* あかんやん, a dialect made standard
AkanTexts ==
  [original |-> <<"a", "ka", "n">> \o Yan,
   converted |-> <<"da", "me">> \o Desu,
   correction |-> <<"da", "me">> \o Desu \o <<"yo">>]

\* the empty text, answered with a doubled full stop
EmptyTexts ==
  [original |-> <<>>,
   converted |-> <<"da", "me">> \o Desu \o <<"maru", "maru">>,
   correction |-> <<"da", "me">> \o Desu \o <<"maru">>]

\* 確認して, converted and corrected as two words
KakuninTexts ==
  [original |-> <<"kaku", "nin", "shi", "te">>,
   converted |-> <<"kaku", "nin", "sp">> \o Onegaishimasu,
   correction |-> <<"kaku", "nin", "sp">> \o Onegai]

SampleTexts ==
  {ApudeTexts, YoroshikuTexts, SumimasenTexts, AkanTexts, EmptyTexts, KakuninTexts}

Ratings == 1..5

FeedbackOptions == {UndefinedOptions} \cup {Options(l, NoApproach) : l \in {NoLevel, 1, 5}}

FeedbackContexts == {NoContext, "business", "constructor"}

\* Payloads that differ in their texts and corrections
TextPayloads ==
  {Payload(t, r, c, NoContext, Options(5, NoApproach)) :
     t \in SampleTexts, r \in {1, 3, 5}, c \in {NoCorrection}}
  \cup
  {Payload(t, r, t.correction, NoContext, Options(5, NoApproach)) :
     t \in SampleTexts, r \in {1, 3, 5}}

\* Payloads that differ in their rating, options and context
RatedPayloads ==
  {Payload(AkanTexts, r, NoCorrection, c, o) :
     r \in Ratings, c \in FeedbackContexts, o \in FeedbackOptions}

MixedPayloads ==
  {Payload(ApudeTexts, 1, NoCorrection, NoContext, UndefinedOptions),
   Payload(ApudeTexts, 5, ApudeTexts.correction, "business", Options(5, NoApproach)),
   Payload(YoroshikuTexts, 2, NoCorrection, "business", Options(1, NoApproach)),
   Payload(SumimasenTexts, 1, SumimasenTexts.correction, NoContext, UndefinedOptions),
   Payload(KakuninTexts, 4, KakuninTexts.correction, "constructor", Options(1, NoApproach)),
   Payload(ApudeTexts, 3, NoCorrection, NoContext, Options(NoLevel, NoApproach))}

FeedbackScripts ==
  {<<p>> : p \in TextPayloads \cup RatedPayloads}
    \cup {<<pq[1], pq[2]>> : pq \in {x \in MixedPayloads \X MixedPayloads : x[1] # x[2]}}

PayloadAt(k) == script[((k - 1) % Len(script)) + 1]

InitLearner ==
  /\ InitEngine
  /\ workload = <<>>
  /\ script \in FeedbackScripts
  /\ InitFeedback
  /\ input = <<>>
  /\ output = <<>>
  /\ InitConverters
  /\ traffic = NoTraffic
  /\ lastOp = "init"

SubmitNext ==
  /\ submitted < MaxFeedback
  /\ CollectFeedback(PayloadAt(submitted + 1))

NextFeedback == SubmitNext \/ ClearLearningData

SpecFeedback == InitLearner /\ [][NextFeedback]_vars

(***************************************************************************)
(* A session: the engine and the feedback learner side by side.  A call of *)
(* convertText may begin while an earlier one is suspended at its await;   *)
(* feedback is submitted and the learner reset at any time.                *)
(***************************************************************************)
SessionItems == {i \in LongItems : i.context.relationship = "unknown"}

SessionWorkloads == {Repeat(a, 3) \o <<b>> : a \in SessionItems, b \in SessionItems}

SessionScripts == {<<p>> : p \in {q \in MixedPayloads : q.userRating >= 3}}

Init ==
  /\ InitEngine
  /\ workload \in SessionWorkloads
  /\ script \in SessionScripts
  /\ InitFeedback
  /\ input = <<>>
  /\ output = <<>>
  /\ InitConverters
  /\ traffic = NoTraffic
  /\ lastOp = "init"

IssueOverlapping ==
  /\ calls < MaxCalls
  /\ Len(pending) < MaxOverlap
  /\ ConvertStart(ItemAt(calls + 1))

SubmitInSession ==
  /\ submitted < MaxSessionFeedback
  /\ CollectFeedback(PayloadAt(submitted + 1))

Next == IssueOverlapping \/ ConvertResume \/ SubmitInSession \/ ClearLearningData

Spec == Init /\ [][Next]_vars

(***************************************************************************)
(* Properties of a single convertText call.                                *)
(***************************************************************************)

\* C1: convertText returns a result and never rejects; when a pipeline step threw,
\* the result is the fallback: converted = original + "をお願いします。", level 2,
\* confidence 0.3, exactly one suggestion, of type error, and metadata.error is the
\* message of the exception.
C1_FallbackOnThrow ==
  lastResult.id # 0 =>
    /\ lastResult.settled = "fulfilled"
    /\ lastResult.threw =>
         /\ lastResult.response.converted = lastResult.text \o FallbackSuffix
         /\ lastResult.response.level = 2
         /\ lastResult.response.confidence = 30
         /\ Len(lastResult.response.suggestions) = 1
         /\ lastResult.response.suggestions[1] = "error"
         /\ lastResult.response.error = lastResult.message

C1_Witness ==
  /\ lastResult.id # 0
  /\ lastResult.threw
  /\ lastResult.text = SampleText
  /\ lastResult.response.engine = "fallback"

\* C2: with options.level an integer L in 1..5 and no preferredApproach, the result
\* of convertText has level L, whatever the text, the context and the learned
\* preferences are.
C2_ExplicitLevelKept ==
  (/\ lastResult.id # 0
   /\ lastResult.options.present
   /\ lastResult.options.level \in 1..5
   /\ lastResult.options.preferredApproach = NoApproach)
  => lastResult.response.level = lastResult.options.level

\* The scenario level 2, with a longer level variant of another level among the
\* candidates while the chosen text is short.
C2_Witness ==
  /\ lastResult.id # 0
  /\ lastResult.options.present
  /\ lastResult.options.level = 2
  /\ lastResult.options.preferredApproach = NoApproach
  /\ lastResult.response.level = 2
  /\ lastResult.context.issues = 2
  /\ lastResult.selected.textLen = ShortLen
  /\ \E i \in 1..Len(lastResult.response.variations) :
        /\ lastResult.response.variations[i].level = 5
        /\ lastResult.response.variations[i].textLen = LongLen

\* C3: determineTargetLevel returns options.level when it is in 1..5; otherwise it
\* starts at 3 and only raises: to at least 4 for a superior, to at least 4 for a
\* very-casual text, then to at least the learned default level, capped at 5.  The
\* level is always in 1..5 and, without an explicit level, never below 3.
C3_TargetLevel ==
  \A i \in 1..Len(pending) :
    LET f == pending[i]
        given == f.options.level
        t == f.targetLevel
        learned == f.prefsAtStart.defaultLevel
        floor4 == f.context.relationship = "superior"
                    \/ f.context.formalityLevel = "very-casual"
    IN  /\ t \in 1..5
        /\ given \in 1..5 => t = given
        /\ given \notin 1..5 =>
             /\ t >= 3
             /\ floor4 => t >= 4
             /\ t >= Min(learned, 5)
             /\ t = Min(5, Max(Max(3, IF floor4 THEN 4 ELSE 3), learned))

\* No explicit level, a very-casual text and a learned level below 4: the target is 4.
C3_Witness ==
  \E i \in 1..Len(pending) :
    /\ pending[i].options.level = NoLevel
    /\ pending[i].context.formalityLevel = "very-casual"
    /\ pending[i].context.relationship = "subordinate"
    /\ pending[i].prefsAtStart.defaultLevel = 2
    /\ pending[i].targetLevel = 4

\* C4: selectBestConversion returns a candidate of the preferred approach whenever
\* the candidates hold one, whatever the scores; otherwise a candidate of maximum
\* score, and among equal maxima the one generated first.
C4_Selection ==
  (lastResult.id # 0 /\ ~lastResult.threw) =>
    LET convs == lastResult.response.variations
        want == lastResult.options.preferredApproach
        chosen == lastResult.selected
        ScoreOf(i) == scoreConversion(convs[i], lastResult.context, lastResult.options,
                                      lastResult.prefsAtSelect)
    IN  IF want # NoApproach /\ \E i \in 1..Len(convs) : convs[i].approach = want
        THEN chosen.approach = want
        ELSE \E i \in 1..Len(convs) :
               /\ chosen.approach = convs[i].approach
               /\ chosen.level = convs[i].level
               /\ chosen.textLen = convs[i].textLen
               /\ chosen.score = ScoreOf(i)
               /\ \A j \in 1..Len(convs) : ScoreOf(j) <= ScoreOf(i)
               /\ \A j \in 1..(i - 1) : ScoreOf(j) < ScoreOf(i)

\* A tie at the maximum between the sentence candidate and the context-optimized
\* candidate, won by the sentence candidate, which is generated first.
C4_Witness ==
  /\ lastResult.id # 0
  /\ ~lastResult.threw
  /\ lastResult.options.preferredApproach = NoApproach
  /\ lastResult.selected.approach = "sentence-generation"
  /\ \E i \in 1..Len(lastResult.response.variations) :
        /\ lastResult.response.variations[i].approach = "context-optimized"
        /\ scoreConversion(lastResult.response.variations[i], lastResult.context,
                           lastResult.options, lastResult.prefsAtSelect)
             = lastResult.selected.score

\* A preferred approach that overrides a higher score.
C4_WitnessPreferred ==
  /\ lastResult.id # 0
  /\ ~lastResult.threw
  /\ lastResult.options.preferredApproach = "level-variation"
  /\ lastResult.selected.approach = "level-variation"
  /\ lastResult.selected.level # lastResult.targetLevel

(***************************************************************************)
(* Properties of the conversion history and of the learned preferences.    *)
(***************************************************************************)

\* C5: after n successful convertText calls the conversion history holds exactly
\* min(n, 100) records, those of the most recent calls, in call order, the oldest
\* record being evicted first; its length never exceeds 100.
C5_BoundedHistory ==
  LET n == Len(stored)
      kept == IF n <= 100 THEN n ELSE 100
  IN  /\ Len(conversionHistory) = kept
      /\ Len(conversionHistory) <= 100
      /\ \A i \in 1..kept : conversionHistory[i] = stored[n - kept + i]
      /\ \A i \in 1..(kept - 1) : conversionHistory[i].id < conversionHistory[i + 1].id

\* More than 100 successful calls, the first records evicted.
C5_Witness ==
  /\ Len(stored) = 102
  /\ Len(conversionHistory) = 100
  /\ conversionHistory[1] = stored[3]
  /\ conversionHistory[1] # stored[1]

\* C6: after a successful convertText call that leaves at least 5 records, the
\* learned default level is the rounded mean of the levels of the last 5 records and
\* the learned preferred approach has the highest count among the last 10 records;
\* with fewer than 5 records both values are unchanged.
C6_LearnedPreferences ==
  lastOp = "convertResume" =>
    LET n == Len(conversionHistory)
        Level(i) == conversionHistory[i].level
        sum5 == Level(n) + Level(n - 1) + Level(n - 2) + Level(n - 3) + Level(n - 4)
        lastTen == {i \in 1..n : i > n - 10}
        Count(a) == Cardinality({i \in lastTen : conversionHistory[i].approach = a})
        d == userPreferences.defaultLevel
    IN  IF n >= 5
        THEN /\ 10 * d - 5 <= 2 * sum5
             /\ 2 * sum5 < 10 * d + 5
             /\ \A a \in Approaches : Count(a) <= Count(userPreferences.preferredApproach)
             /\ Count(userPreferences.preferredApproach) > 0
        ELSE userPreferences = lastResult.prefsAtSelect

\* The window of 5 differs from the whole history: the mean of the last 5 levels is
\* not the mean of all levels, and the most used approach of the last 10 records is
\* not the most used approach of the older records.
C6_Witness ==
  /\ lastOp = "convertResume"
  /\ Len(conversionHistory) = 20
  /\ conversionHistory[1].level = 1
  /\ conversionHistory[1].approach = "sentence-generation"
  /\ userPreferences.defaultLevel = 4
  /\ userPreferences.preferredApproach = "word-level"

(***************************************************************************)
(* Properties of the feedback learner.                                     *)
(***************************************************************************)
LearnerPreferencesOf(prefs) ==
  IF "default" \in DOMAIN prefs THEN prefs["default"] ELSE NewLearnerPreferences

ContextCount(prefs, context, counter) ==
  IF context \in DOMAIN prefs.contextPreferences
  THEN Len(prefs.contextPreferences[context][counter])
  ELSE 0

\* C8: every collectFeedback call updates the preference model.  With a rating of 4
\* or more, preferredLevel becomes round((old preferredLevel + level of the
\* feedback) / 2) and the success counter of the feedback's context grows by one;
\* with a rating of 2 or less the problem counter of that context grows by one and
\* preferredLevel is unchanged; with rating 3 nothing changes.  This holds for every
\* payload, also for one without options.
C8_PreferencesAlwaysUpdated ==
  [][submitted' = submitted + 1 =>
       LET payload == feedbackLog'[Len(feedbackLog')]
           context == IF payload.context = NoContext THEN "general" ELSE payload.context
           old == LearnerPreferencesOf(learnerPreferences)
           new == LearnerPreferencesOf(learnerPreferences')
           levels == IF payload.options.present /\ payload.options.level # NoLevel
                     THEN {payload.options.level}
                     ELSE 1..5
           Grown(counter) == ContextCount(new, context, counter)
                               - ContextCount(old, context, counter)
       IN  /\ "default" \in DOMAIN learnerPreferences'
           /\ payload.userRating >= 4 =>
                /\ \E level \in levels :
                     2 * new.preferredLevel \in {old.preferredLevel + level,
                                                 old.preferredLevel + level + 1}
                /\ Grown("successfulPatterns") = 1
                /\ Grown("problematicPatterns") = 0
           /\ payload.userRating <= 2 =>
                /\ new.preferredLevel = old.preferredLevel
                /\ Grown("problematicPatterns") = 1
                /\ Grown("successfulPatterns") = 0
           /\ payload.userRating = 3 =>
                /\ new.preferredLevel = old.preferredLevel
                /\ Grown("problematicPatterns") = 0
                /\ Grown("successfulPatterns") = 0
  ]_vars

\* C9: after n collectFeedback calls with a rating of 2 or less and the same
\* originalText and convertedText, each negative signature of that pair of texts is
\* held in exactly one LearningPattern, whose occurrences is n and whose confidence
\* is min(0.95, n * 0.10).
C9_NegativePatternCounts ==
  LET negative == {i \in 1..Len(feedbackLog) : feedbackLog[i].userRating <= 2}
  IN  \A i \in negative :
        LET original == feedbackLog[i].originalText
            converted == feedbackLog[i].convertedText
            found == identifyProblematicPatterns(original, converted)
            n == Cardinality(negative)
        IN  (\A j \in negative : /\ feedbackLog[j].originalText = original
                                 /\ feedbackLog[j].convertedText = converted)
            => \A s \in 1..Len(found) :
                 LET held == {k \in DOMAIN learningPatterns :
                                /\ learningPatterns[k].type = "negative"
                                /\ learningPatterns[k].patternType = found[s].type
                                /\ learningPatterns[k].pattern = found[s].pattern}
                 IN  /\ Cardinality(held) = 1
                     /\ \A k \in held :
                          /\ learningPatterns[k].occurrences = n
                          /\ learningPatterns[k].confidence = (IF 10 * n < 95 THEN 10 * n ELSE 95)

\* Ten negative ratings of one conversion: the confidence of its two signatures has
\* reached the cap.
C9_Witness ==
  /\ Cardinality({i \in 1..Len(feedbackLog) : feedbackLog[i].userRating <= 2}) = 10
  /\ \A i \in 1..Len(feedbackLog) : feedbackLog[i].originalText = ApudeTexts.original
  /\ PatternKey("negative", "incomplete_conversion", <<"casual_formal_mix">>)
       \in DOMAIN learningPatterns
  /\ learningPatterns[PatternKey("negative", "incomplete_conversion",
                                 <<"casual_formal_mix">>)].confidence = 95
  /\ learningPatterns[PatternKey("negative", "excessive_expansion",
                                 <<"length_ratio_", "6">>)].occurrences = 10

\* C10: over any sequence of collectFeedback calls every LearningPattern is created
\* once per signature and then updated in place: its occurrences and its confidence
\* never decrease and its confidence lies in [0, 1]; only clearLearningData removes
\* a pattern or lowers a confidence.
C10_PatternsOnlyGrow ==
  [][/\ \A k \in DOMAIN learningPatterns' :
          /\ learningPatterns'[k].confidence >= 0
          /\ learningPatterns'[k].confidence <= 100
          /\ learningPatterns'[k].occurrences >= 1
     /\ lastOp' # "clearLearningData" =>
          \A k \in DOMAIN learningPatterns :
            /\ k \in DOMAIN learningPatterns'
            /\ learningPatterns'[k].type = learningPatterns[k].type
            /\ learningPatterns'[k].occurrences >= learningPatterns[k].occurrences
            /\ learningPatterns'[k].confidence >= learningPatterns[k].confidence
  ]_vars

\* A correction pattern, a positive pattern and nothing else, each seen ten times
\* and each at its cap.
C10_Witness ==
  /\ lastOp = "collectFeedback"
  /\ Len(feedbackLog) = 10
  /\ \E k \in DOMAIN learningPatterns :
       /\ learningPatterns[k].type = "correction"
       /\ learningPatterns[k].occurrences = 10
       /\ learningPatterns[k].confidence = 90
  /\ \E k \in DOMAIN learningPatterns :
       /\ learningPatterns[k].type = "positive"
       /\ learningPatterns[k].occurrences = 10
       /\ learningPatterns[k].confidence = 95

(***************************************************************************)
(* Who writes the level that determineTargetLevel reads.                   *)
(***************************************************************************)

C11_EmptyTextFallback ==
  (lastResult.id # 0 /\ lastResult.text = EmptyText) =>
    /\ lastResult.settled = "fulfilled"
    /\ lastResult.response.engine = "fallback"
    /\ lastResult.response.level = 2
    /\ lastResult.response.confidence = 30
    /\ lastResult.response.converted = EmptyText \o FallbackSuffix

(***************************************************************************)
(* ContextAnalyzer: what a text is for, how urgent it is, whom it is for.  *)
(* A pattern is the literal its regular expression spells; none has the g  *)
(* flag or a group, so text.match(pattern) holds one match or is null.     *)
(***************************************************************************)

intentPatterns ==
  <<
   \* して してください お願い 頼む やって 確認 チェック 見て 教えて 送って 作って 修正 対応 処理
   [name |-> "request", patterns |->
      <<<<"shi", "te">>, <<"shi", "te", "ku", "da", "sa", "i">>, <<"o", "nega", "i">>,
        <<"tano", "mu">>, <<"ya", "small_tsu", "te">>, <<"kaku", "nin">>,
        <<"CHI", "small_E", "small_TSU", "KU">>, <<"miru", "te">>,
        <<"oshi", "e", "te">>, <<"oku", "small_tsu", "te">>,
        <<"tsuku", "small_tsu", "te">>, <<"osa", "sei">>, <<"tsui", "kotae">>,
        <<"tokoro", "kotowari">>>>],
   \* ? ？ どう いかが どこ いつ なぜ なに どれ 大丈夫 可能 できる わかる 知って
   [name |-> "question", patterns |->
      <<<<"question">>, <<"wide_question">>, <<"do", "u">>, <<"i", "ka", "ga">>,
        <<"do", "ko">>, <<"i", "tsu">>, <<"na", "ze">>, <<"na", "ni">>, <<"do", "re">>,
        <<"dai", "take", "otto">>, <<"beshi", "nou">>, <<"de", "ki", "ru">>,
        <<"wa", "ka", "ru">>, <<"shiru", "small_tsu", "te">>>>],
   \* 報告 お知らせ 完了 終了 済み できました しました 進捗 状況 結果 について 件で
   [name |-> "report", patterns |->
      <<<<"mukui", "tsuge">>, <<"o", "shiru", "ra", "se">>, <<"mattou", "ryou">>,
        <<"owa", "ryou">>, <<"sumi", "mi">>, <<"de", "ki", "ma", "shi", "ta">>,
        <<"shi", "ma", "shi", "ta">>, <<"susu", "haka">>, <<"jou", "mashite">>,
        <<"musu", "hate">>, <<"ni", "tsu", "i", "te">>, <<"ken", "de">>>>],
   \* すみません 申し訳 ごめん 失礼 遅れ ミス 間違い 忘れ できません 困って
   [name |-> "apology", patterns |->
      <<<<"su", "mi", "ma", "se", "n">>, <<"mou", "shi", "wake">>, <<"go", "me", "n">>,
        <<"shitsu", "rei">>, <<"oso_i", "re">>, <<"MI", "SU">>,
        <<"aida", "chiga", "i">>, <<"wasu", "re">>, <<"de", "ki", "ma", "se", "n">>,
        <<"koma", "small_tsu", "te">>>>],
   \* おはよう こんにちは こんばんは お疲れ 失礼します よろしく ありがとう 感謝
   [name |-> "greeting", patterns |->
      <<<<"o", "ha", "yo", "u">>, <<"ko", "n", "ni", "chi", "ha">>,
        <<"ko", "n", "ba", "n", "ha">>, <<"o", "tsuka", "re">>,
        <<"shitsu", "rei", "shi", "ma", "su">>, <<"yo", "ro", "shi", "ku">>,
        <<"a", "ri", "ga", "to", "u">>, <<"kanjiru", "ayama">>>>],
   \* 問題 困る おかしい 変 ダメ 不具合 エラー 動かない できない 遅い
   [name |-> "complaint", patterns |->
      <<<<"mon", "dai_topic">>, <<"koma", "ru">>, <<"o", "ka", "shi", "i">>, <<"kawa">>,
        <<"DA", "ME">>, <<"hu", "sonae", "au">>, <<"E", "RA", "long">>,
        <<"ugo", "ka", "na", "i">>, <<"de", "ki", "na", "i">>, <<"oso_i", "i">>>>]
  >>

urgencyIndicators ==
  <<
   \* 急 緊急 至急 ASAP 今すぐ すぐに 早く 急いで 待って ヤバい マジで 本当に 大変 危険
   [name |-> "urgent", patterns |->
      <<<<"iso">>, <<"kin", "iso">>, <<"itaru", "iso">>,
        <<"latin_A", "latin_S", "latin_A", "latin_P">>, <<"ima", "su", "gu">>,
        <<"su", "gu", "ni">>, <<"haya", "ku">>, <<"iso", "i", "de">>,
        <<"mata", "small_tsu", "te">>, <<"YA", "BA", "i">>, <<"MA", "JI", "de">>,
        <<"hon", "ata", "ni">>, <<"dai", "kawa">>, <<"abu", "kewa">>>>],
   \* よろしく お願い いつでも 可能でしたら お時間
   [name |-> "normal", patterns |->
      <<<<"yo", "ro", "shi", "ku">>, <<"o", "nega", "i">>, <<"i", "tsu", "de", "mo">>,
        <<"beshi", "nou", "de", "shi", "ta", "ra">>, <<"o", "toki", "aida">>>>],
   \* ゆっくり のんびり 空いてる時 余裕 後で 今度 いつか そのうち
   [name |-> "relaxed", patterns |->
      <<<<"yu", "small_tsu", "ku", "ri">>, <<"no", "n", "bi", "ri">>,
        <<"sora", "i", "te", "ru", "toki">>, <<"ama", "yutaka">>, <<"ato", "de">>,
        <<"ima", "tabi">>, <<"i", "tsu", "ka">>, <<"so", "no", "u", "chi">>>>]
  >>

relationshipIndicators ==
  <<
   \* 部長 課長 社長 お疲れ様 恐れ入り 失礼 申し訳 いつもお世話 ありがとうございます
   [name |-> "superior", patterns |->
      <<<<"bu_section", "naga">>, <<"kaka", "naga">>, <<"yashiro", "naga">>,
        <<"o", "tsuka", "re", "sama_k">>, <<"oso", "re", "iri", "ri">>,
        <<"shitsu", "rei">>, <<"mou", "shi", "wake">>,
        <<"i", "tsu", "mo", "o", "yono", "hanashi">>,
        <<"a", "ri", "ga", "to", "u", "go", "za", "i", "ma", "su">>>>],
   \* さん 君 よろしく 一緒に 手伝 相談 どう思う
   [name |-> "colleague", patterns |->
      <<<<"sa", "n">>, <<"kimi">>, <<"yo", "ro", "shi", "ku">>,
        <<"ichi", "itoguchi", "ni">>, <<"hand", "tsuta">>, <<"ai", "dan">>,
        <<"do", "u", "omo", "u">>>>],
   \* 頼む やって 確認して 急いで 大丈夫？
   [name |-> "subordinate", patterns |->
      <<<<"tano", "mu">>, <<"ya", "small_tsu", "te">>, <<"kaku", "nin", "shi", "te">>,
        <<"iso", "i", "de">>, <<"dai", "take", "otto", "wide_question">>>>],
   \* お客 ご利用 サービス お問い合わせ ご質問 ご不明
   [name |-> "customer", patterns |->
      <<<<"o", "kyaku">>, <<"go", "kiku", "you">>, <<"SA", "long", "BI", "SU">>,
        <<"o", "mon", "i", "au", "wa", "se">>, <<"go", "shichi", "mon">>,
        <<"go", "hu", "aka">>>>]
  >>

casualWords ==
  \* アプデ バグ レス リスケ ググる ヤバい マジで やって して ダメ オッケー NG OK チェック
  <<<<"A", "PU", "DE">>, <<"BA", "GU">>, <<"RE", "SU">>, <<"RI", "SU", "KE">>,
    <<"GU", "GU", "ru">>, <<"YA", "BA", "i">>, <<"MA", "JI", "de">>,
    <<"ya", "small_tsu", "te">>, <<"shi", "te">>, <<"DA", "ME">>,
    <<"O", "small_TSU", "KE", "long">>, <<"latin_N", "latin_G">>,
    <<"latin_O", "latin_K">>, <<"CHI", "small_E", "small_TSU", "KU">>>>

\* scores[category]: (text.match(pattern) || []).length summed over the patterns
Scores(text, table) ==
  [i \in DOMAIN table |->
     Cardinality({j \in DOMAIN table[i].patterns : Contains(text, table[i].patterns[j])})]

\* patterns.some(pattern => pattern.test(text))
SomeMatches(text, patterns) == \E j \in DOMAIN patterns : Contains(text, patterns[j])

\* Math.max(...Object.values(scores))
MaxScore(scores) == CHOOSE m \in {scores[i] : i \in DOMAIN scores} :
                      \A i \in DOMAIN scores : scores[i] <= m

analyzeIntentGeneral(text) ==
  LET scores == Scores(text, intentPatterns)
      maxScore == MaxScore(scores)
  IN  IF maxScore = 0 THEN "general"
      ELSE intentPatterns[CHOOSE i \in DOMAIN scores :
                            scores[i] = maxScore
                            /\ \A j \in 1..(i - 1) : scores[j] # maxScore].name

analyzeIntentLastKey(text) ==
  LET scores == Scores(text, intentPatterns)
      maxScore == MaxScore(scores)
  IN  IF maxScore = 0 THEN "unknown"
      ELSE intentPatterns[CHOOSE i \in DOMAIN scores :
                            scores[i] = maxScore
                            /\ \A j \in (i + 1)..Len(intentPatterns) :
                                 scores[j] # maxScore].name

\* Object.keys(scores).find(key => scores[key] === maxScore): the first key, in the
\* order the patterns are declared, that holds the maximum
analyzeIntent(text) ==
  LET scores == Scores(text, intentPatterns)
      maxScore == MaxScore(scores)
  IN  IF maxScore = 0 THEN "unknown"
      ELSE intentPatterns[CHOOSE i \in DOMAIN scores :
                            scores[i] = maxScore
                            /\ \A j \in 1..(i - 1) : scores[j] # maxScore].name

\* the first level, urgent before normal before relaxed, one of whose patterns matches
detectUrgency(text) ==
  IF \E i \in DOMAIN urgencyIndicators : SomeMatches(text, urgencyIndicators[i].patterns)
  THEN urgencyIndicators[CHOOSE i \in DOMAIN urgencyIndicators :
                           /\ SomeMatches(text, urgencyIndicators[i].patterns)
                           /\ \A j \in 1..(i - 1) :
                                ~SomeMatches(text, urgencyIndicators[j].patterns)].name
  ELSE "normal"

estimateRelationship(text) ==
  LET scores == Scores(text, relationshipIndicators)
      maxScore == MaxScore(scores)
  IN  IF maxScore = 0 THEN "unknown"
      ELSE relationshipIndicators[CHOOSE i \in DOMAIN scores :
                                    scores[i] = maxScore
                                    /\ \A j \in 1..(i - 1) : scores[j] # maxScore].name

detectSituation(text) ==
  LET
    \* 会議 資料 企画 プロジェクト 売上 予算 契約 クライアント 顧客 営業 部署 チーム
    businessKeywords ==
      <<<<"kai", "hakaru">>, <<"moto", "ryouri">>, <<"kuwada", "kaku_stroke">>,
        <<"PU", "RO", "JI", "small_E", "KU", "TO">>, <<"uri", "ue">>,
        <<"arakajime", "san">>, <<"chigi", "yaku">>,
        <<"KU", "RA", "I", "A", "N", "TO">>, <<"kaeri", "kyaku">>, <<"itona", "gyou">>,
        <<"bu_section", "sho">>, <<"CHI", "long", "MU">>>>
    \* システム アプリ サーバー データベース API バグ デプロイ テスト 実装 設計
    technicalKeywords ==
      <<<<"SHI", "SU", "TE", "MU">>, <<"A", "PU", "RI">>,
        <<"SA", "long", "BA", "long">>, <<"DE", "long", "TA", "BE", "long", "SU">>,
        <<"latin_A", "latin_P", "latin_I">>, <<"BA", "GU">>, <<"DE", "PU", "RO", "I">>,
        <<"TE", "SU", "TO">>, <<"jitsu", "yosoo">>, <<"mouke", "haka_ru">>>>
    \* 飲み ランチ 休憩 趣味 映画 ゲーム 旅行 週末 プライベート
    casualKeywords ==
      <<<<"nomu", "mi">>, <<"RA", "N", "CHI">>, <<"yasu", "iko">>, <<"omomuki", "aji">>,
        <<"utsu", "kaku_stroke">>, <<"GE", "long", "MU">>, <<"ryo", "iku">>,
        <<"shuukan", "matsu">>, <<"PU", "RA", "I", "BE", "long", "TO">>>>
  IN  IF SomeMatches(text, businessKeywords) THEN "business"
      ELSE IF SomeMatches(text, technicalKeywords) THEN "technical"
      ELSE IF SomeMatches(text, casualKeywords) THEN "casual"
      ELSE "general"

assessFormality(text) ==
  LET
    \* です ます ございます いただき いたします 申し上げ 恐れ入り 失礼 お世話になっております
    formalIndicators ==
      <<<<"de", "su">>, <<"ma", "su">>, <<"go", "za", "i", "ma", "su">>,
        <<"i", "ta", "da", "ki">>, <<"i", "ta", "shi", "ma", "su">>,
        <<"mou", "shi", "ue", "ge">>, <<"oso", "re", "iri", "ri">>, <<"shitsu", "rei">>,
        <<"o", "yono", "hanashi", "ni", "na", "small_tsu", "te", "o", "ri", "ma", "su">>>>
    \* だよ だね じゃん って やつ すげー マジで ヤバい オッケー
    casualIndicators ==
      <<<<"da", "yo">>, <<"da", "ne">>, <<"ji", "small_ya", "n">>,
        <<"small_tsu", "te">>, <<"ya", "tsu">>, <<"su", "ge", "long">>,
        <<"MA", "JI", "de">>, <<"YA", "BA", "i">>, <<"O", "small_TSU", "KE", "long">>>>
    Matching(patterns) == Cardinality({j \in DOMAIN patterns : Contains(text, patterns[j])})
    formalityScore == Matching(formalIndicators) * 2 - Matching(casualIndicators) * 3
  IN  IF formalityScore >= 3 THEN "very-formal"
      ELSE IF formalityScore >= 1 THEN "formal"
      ELSE IF formalityScore >= -2 THEN "neutral"
      ELSE IF formalityScore >= -5 THEN "casual"
      ELSE "very-casual"

\* hour is new Date().getHours(), read when no pattern matches
detectTimeContext(text, hour) ==
  LET
    \* おはよう 朝 午前 今朝
    morning ==
      <<<<"o", "ha", "yo", "u">>, <<"asa">>, <<"uma", "mae">>, <<"ima", "asa">>>>
    \* こんにちは 午後 昼 ランチ
    afternoon ==
      <<<<"ko", "n", "ni", "chi", "ha">>, <<"uma", "ato">>, <<"hiru">>,
        <<"RA", "N", "CHI">>>>
    \* こんばんは 夕方 夜 お疲れ様
    evening ==
      <<<<"ko", "n", "ba", "n", "ha">>, <<"yuu", "kata">>, <<"yoru">>,
        <<"o", "tsuka", "re", "sama_k">>>>
    \* 今日 明日 昨日 今週 来週
    general ==
      <<<<"ima", "nichi">>, <<"aka", "nichi">>, <<"saku", "nichi">>,
        <<"ima", "shuukan">>, <<"rai", "shuukan">>>>
  IN  IF SomeMatches(text, morning) THEN "morning"
      ELSE IF SomeMatches(text, afternoon) THEN "afternoon"
      ELSE IF SomeMatches(text, evening) THEN "evening"
      ELSE IF SomeMatches(text, general) THEN "general"
      ELSE IF hour < 12 THEN "morning"
      ELSE IF hour < 18 THEN "afternoon"
      ELSE "evening"

\* this.casualWords.filter(word => text.includes(word))
findCasualWords(text) == SelectSeq(casualWords, LAMBDA word : Contains(text, word))

needsImprovement(text) ==
  LET markers == {<<"o", "tsuka", "re">>,
                  <<"yo", "ro", "shi", "ku">>, <<"a", "ri", "ga", "to", "u">>,
                  <<"su", "mi", "ma", "se", "n">>}
      issues ==
        (IF Len(findCasualWords(text)) > 0 THEN <<"casual_language">> ELSE <<>>)
        \o (IF \A marker \in markers : ~Contains(text, marker)
            THEN <<"lacks_politeness_markers">> ELSE <<>>)
        \o (IF Len(text) < 10 THEN <<"too_brief">> ELSE <<>>)
        \* /^[やして]/
        \o (IF Len(text) > 0 /\ text[1] \in {"ya", "shi", "te"}
            THEN <<"too_direct">> ELSE <<>>)
  IN  [needsImprovement |-> Len(issues) > 0,
       issues |-> issues,
       severity |-> IF Len(issues) >= 3 THEN "high"
                    ELSE IF Len(issues) >= 1 THEN "medium" ELSE "low"]

analyzeContext(text, hour) ==
  [intent |-> analyzeIntent(text),
   urgency |-> detectUrgency(text),
   relationship |-> estimateRelationship(text),
   situation |-> detectSituation(text),
   formalityLevel |-> assessFormality(text),
   timeContext |-> detectTimeContext(text, hour),
   needsImprovement |-> needsImprovement(text),
   casualWords |-> findCasualWords(text)]

(***************************************************************************)
(* analyzeContext on a text put together from at most two of these pieces, *)
(* at an hour on either side of noon and of six in the evening.            *)
(***************************************************************************)
\* 確認して どう思う？ 部長 さん すみません よろしく お疲れ様です バグ 急いで 会議の資料 マジでヤバい 失礼します
\* 報告 エラー ランチ ゆっくり だよ ます お客様 おはよう 今日 やって
AnalyzerPieces ==
  {<<"kaku", "nin", "shi", "te">>, <<"do", "u", "omo", "u", "wide_question">>,
   <<"bu_section", "naga">>, <<"sa", "n">>, <<"su", "mi", "ma", "se", "n">>,
   <<"yo", "ro", "shi", "ku">>, <<"o", "tsuka", "re", "sama_k", "de", "su">>,
   <<"BA", "GU">>, <<"iso", "i", "de">>, <<"kai", "hakaru", "no", "moto", "ryouri">>,
   <<"MA", "JI", "de", "YA", "BA", "i">>, <<"shitsu", "rei", "shi", "ma", "su">>,
   <<"mukui", "tsuge">>, <<"E", "RA", "long">>, <<"RA", "N", "CHI">>,
   <<"yu", "small_tsu", "ku", "ri">>, <<"da", "yo">>, <<"ma", "su">>,
   <<"o", "kyaku", "sama_k">>, <<"o", "ha", "yo", "u">>, <<"ima", "nichi">>,
   <<"ya", "small_tsu", "te">>}

AnalyzerTexts ==
  {<<>>} \cup AnalyzerPieces \cup {a \o b : a \in AnalyzerPieces, b \in AnalyzerPieces}

Hours == {11, 12, 17, 18}

InitAnalyzer ==
  /\ InitEngine
  /\ workload = <<>>
  /\ script = <<>>
  /\ InitFeedback
  /\ input \in {[text |-> t, hour |-> h] : t \in AnalyzerTexts, h \in Hours}
  /\ output = <<>>
  /\ InitConverters
  /\ traffic = NoTraffic
  /\ lastOp = "init"

AnalyzeContext ==
  /\ lastOp = "init"
  /\ output' = analyzeContext(input.text, input.hour)
  /\ lastOp' = "analyzeContext"
  /\ UNCHANGED <<engineVars, feedbackVars, input, converterVars>>

NextAnalyzer == AnalyzeContext

SpecAnalyzer == InitAnalyzer /\ [][NextAnalyzer]_vars

\* C12 as stated: for every text analyzeContext returns a descriptor whose intent is
\* one of request, question, report, apology, greeting, complaint, appreciation,
\* general, and whose urgency, relationship, situation and formalityLevel are each one
\* of their listed values.
C12_ListedValues ==
  lastOp = "analyzeContext" =>
    /\ output.intent \in {"request", "question", "report", "apology", "greeting",
                          "complaint", "appreciation", "general"}
    /\ output.urgency \in {"urgent", "normal", "relaxed"}
    /\ output.relationship \in {"superior", "colleague", "subordinate", "customer",
                                "unknown"}
    /\ output.situation \in {"business", "technical", "casual", "general"}
    /\ output.formalityLevel \in {"very-formal", "formal", "neutral", "casual",
                                  "very-casual"}

\* C12, amended: for every text analyzeContext returns a descriptor whose intent is
\* one of request, question, report, apology, greeting, complaint, unknown (unknown
\* when no intent pattern matches; never appreciation or general), urgency one of
\* urgent, normal, relaxed, relationship one of superior, colleague, subordinate,
\* customer, unknown, situation one of business, technical, casual, general, and
\* formalityLevel one of very-formal, formal, neutral, casual, very-casual.
C12_DescriptorValues ==
  lastOp = "analyzeContext" =>
    /\ output.intent \in {"request", "question", "report", "apology", "greeting",
                          "complaint", "unknown"}
    /\ output.urgency \in {"urgent", "normal", "relaxed"}
    /\ output.relationship \in {"superior", "colleague", "subordinate", "customer",
                                "unknown"}
    /\ output.situation \in {"business", "technical", "casual", "general"}
    /\ output.formalityLevel \in {"very-formal", "formal", "neutral", "casual",
                                  "very-casual"}
    /\ output.intent = "unknown" <=>
         \A i \in DOMAIN intentPatterns :
           ~SomeMatches(input.text, intentPatterns[i].patterns)

\* a text no intent pattern matches has been analyzed: its intent is unknown
C12_Witness ==
  /\ lastOp = "analyzeContext"
  /\ input.text # <<>>
  /\ output.intent = "unknown"
  /\ output.situation = "casual"

\* C13 as stated: intent and relationship are the category with the strictly highest
\* match count; when no category matches, or when two or more share the maximum, the
\* result is the axis's default and none of the tied categories.
C13_TieGivesDefault ==
  lastOp = "analyzeContext" =>
    LET Holds(table, result) ==
          LET scores == Scores(input.text, table)
              best == {i \in DOMAIN table :
                         \A j \in DOMAIN table \ {i} : scores[j] < scores[i]}
          IN  IF best # {}
              THEN \A i \in best : result = table[i].name
              ELSE result \notin {table[i].name : i \in DOMAIN table}
    IN  /\ Holds(intentPatterns, output.intent)
        /\ Holds(relationshipIndicators, output.relationship)

\* C13, amended: intent and relationship are "unknown" exactly when no pattern of the
\* axis matches; otherwise the result is a category with the highest match count, and
\* when two or more categories share that count it is the one declared first.
C13_FirstOfTheHighest ==
  lastOp = "analyzeContext" =>
    LET Holds(table, result) ==
          LET scores == Scores(input.text, table)
          IN  IF \A i \in DOMAIN table : scores[i] = 0
              THEN result = "unknown"
              ELSE \E i \in DOMAIN table :
                     /\ result = table[i].name
                     /\ \A j \in DOMAIN table : scores[j] <= scores[i]
                     /\ \A j \in 1..(i - 1) : scores[j] < scores[i]
    IN  /\ Holds(intentPatterns, output.intent)
        /\ Holds(relationshipIndicators, output.relationship)

\* two intents share the highest count, above zero, and the later one is not chosen
C13_Witness ==
  /\ lastOp = "analyzeContext"
  /\ LET scores == Scores(input.text, intentPatterns)
     IN  \E i \in DOMAIN scores : \E j \in (i + 1)..Len(intentPatterns) :
           /\ scores[i] > 0
           /\ scores[i] = scores[j]
           /\ \A k \in DOMAIN scores : scores[k] <= scores[i]
           /\ output.intent = intentPatterns[i].name

(***************************************************************************)
(* WordConverter: three passes over the text, each on the result of the    *)
(* one before, and one log of the conversions made.                        *)
(***************************************************************************)

\* conversionData.words, in the order Object.entries reads them
words ==
  <<
   \* アプデ -> アップデート
   [casual |-> <<"A", "PU", "DE">>,
    polite |-> <<"A", "small_TSU", "PU", "DE", "long", "TO">>],
   \* バグ -> 不具合
   [casual |-> <<"BA", "GU">>, polite |-> <<"hu", "sonae", "au">>],
   \* レス -> お返事
   [casual |-> <<"RE", "SU">>, polite |-> <<"o", "kae_su", "koto">>],
   \* リスケ -> スケジュール変更
   [casual |-> <<"RI", "SU", "KE">>,
    polite |-> <<"SU", "KE", "JI", "small_YU", "long", "RU", "kawa", "sara">>],
   \* ググる -> 検索する
   [casual |-> <<"GU", "GU", "ru">>,
    polite |-> <<"ken_exam", "saku_rope", "su", "ru">>],
   \* ヤバい -> 大変な状況
   [casual |-> <<"YA", "BA", "i">>,
    polite |-> <<"dai", "kawa", "na", "jou", "mashite">>],
   \* マジで -> 非常に
   [casual |-> <<"MA", "JI", "de">>, polite |-> <<"ara_zu", "tsune", "ni">>],
   \* オッケー -> 承知いたしました
   [casual |-> <<"O", "small_TSU", "KE", "long">>,
    polite |-> <<"uketamawa", "shiru", "i", "ta", "shi", "ma", "shi", "ta">>],
   \* NG -> お受けできません
   [casual |-> <<"latin_N", "latin_G">>,
    polite |-> <<"o", "uke", "ke", "de", "ki", "ma", "se", "n">>],
   \* チェック -> 確認
   [casual |-> <<"CHI", "small_E", "small_TSU", "KU">>, polite |-> <<"kaku", "nin">>],
   \* フィックス -> 修正
   [casual |-> <<"FU", "small_I", "small_TSU", "KU", "SU">>,
    polite |-> <<"osa", "sei">>],
   \* デバッグ -> 不具合調査
   [casual |-> <<"DE", "BA", "small_TSU", "GU">>,
    polite |-> <<"hu", "sonae", "au", "shira", "sa_inspect">>],
   \* リリース -> 公開
   [casual |-> <<"RI", "RI", "long", "SU">>, polite |-> <<"ooyake", "hira">>],
   \* デプロイ -> 配置
   [casual |-> <<"DE", "PU", "RO", "I">>, polite |-> <<"kuba", "oki">>],
   \* タスク -> 作業
   [casual |-> <<"TA", "SU", "KU">>, polite |-> <<"tsuku", "gyou">>],
   \* アサイン -> 担当指定
   [casual |-> <<"A", "SA", "I", "N">>, polite |-> <<"nina", "ata", "yubi", "sada">>],
   \* アポ -> お約束
   [casual |-> <<"A", "PO">>, polite |-> <<"o", "yaku", "taba">>],
   \* ミーティング -> 会議
   [casual |-> <<"MI", "long", "TE", "small_I", "N", "GU">>,
    polite |-> <<"kai", "hakaru">>],
   \* プレゼン -> 発表
   [casual |-> <<"PU", "RE", "ZE", "N">>, polite |-> <<"hatsu", "omote">>],
   \* レビュー -> 確認
   [casual |-> <<"RE", "BI", "small_YU", "long">>, polite |-> <<"kaku", "nin">>],
   \* フィードバック -> ご意見
   [casual |-> <<"FU", "small_I", "long", "DO", "BA", "small_TSU", "KU">>,
    polite |-> <<"go", "ishi", "miru">>],
   \* デッドライン -> 期限
   [casual |-> <<"DE", "small_TSU", "DO", "RA", "I", "N">>,
    polite |-> <<"ki_term", "kagi">>],
   \* スケジュール -> 予定
   [casual |-> <<"SU", "KE", "JI", "small_YU", "long", "RU">>,
    polite |-> <<"arakajime", "sada">>],
   \* ステータス -> 状況
   [casual |-> <<"SU", "TE", "long", "TA", "SU">>, polite |-> <<"jou", "mashite">>],
   \* イシュー -> 課題
   [casual |-> <<"I", "SHI", "small_YU", "long">>, polite |-> <<"kaka", "dai_topic">>],
   \* リクエスト -> ご依頼
   [casual |-> <<"RI", "KU", "E", "SU", "TO">>, polite |-> <<"go", "yori", "tano">>],
   \* レスポンス -> お返事
   [casual |-> <<"RE", "SU", "PO", "N", "SU">>, polite |-> <<"o", "kae_su", "koto">>],
   \* サポート -> 支援
   [casual |-> <<"SA", "PO", "long", "TO">>, polite |-> <<"sasa", "en">>],
   \* ヘルプ -> お手伝い
   [casual |-> <<"HE", "RU", "PU">>, polite |-> <<"o", "hand", "tsuta", "i">>]
  >>

\* conversionData.phrases
phrases ==
  <<
   \* やって -> やっていただけませんか
   [casual |-> <<"ya", "small_tsu", "te">>,
    polite |-> <<"ya", "small_tsu", "te", "i", "ta", "da", "ke", "ma", "se", "n", "ka">>],
   \* して -> していただけませんか
   [casual |-> <<"shi", "te">>,
    polite |-> <<"shi", "te", "i", "ta", "da", "ke", "ma", "se", "n", "ka">>],
   \* 確認して -> ご確認いただけますでしょうか
   [casual |-> <<"kaku", "nin", "shi", "te">>,
    polite |-> <<"go", "kaku", "nin", "i", "ta", "da", "ke", "ma", "su", "de", "shi",
               "small_yo", "u", "ka">>],
   \* チェックして -> お確かめいただけますでしょうか
   [casual |-> <<"CHI", "small_E", "small_TSU", "KU", "shi", "te">>,
    polite |-> <<"o", "kaku", "ka", "me", "i", "ta", "da", "ke", "ma", "su", "de", "shi",
               "small_yo", "u", "ka">>],
   \* 教えて -> 教えていただけませんか
   [casual |-> <<"oshi", "e", "te">>,
    polite |-> <<"oshi", "e", "te", "i", "ta", "da", "ke", "ma", "se", "n", "ka">>],
   \* 送って -> お送りいただけませんか
   [casual |-> <<"oku", "small_tsu", "te">>,
    polite |-> <<"o", "oku", "ri", "i", "ta", "da", "ke", "ma", "se", "n", "ka">>],
   \* 作って -> 作成していただけませんか
   [casual |-> <<"tsuku", "small_tsu", "te">>,
    polite |-> <<"tsuku", "naru", "shi", "te", "i", "ta", "da", "ke", "ma", "se", "n",
               "ka">>],
   \* 修正して -> 修正していただけませんか
   [casual |-> <<"osa", "sei", "shi", "te">>,
    polite |-> <<"osa", "sei", "shi", "te", "i", "ta", "da", "ke", "ma", "se", "n", "ka">>],
   \* 対応して -> ご対応いただけませんか
   [casual |-> <<"tsui", "kotae", "shi", "te">>,
    polite |-> <<"go", "tsui", "kotae", "i", "ta", "da", "ke", "ma", "se", "n", "ka">>],
   \* 見て -> ご覧いただけませんか
   [casual |-> <<"miru", "te">>,
    polite |-> <<"go", "ran", "i", "ta", "da", "ke", "ma", "se", "n", "ka">>],
   \* 読んで -> お読みいただけませんか
   [casual |-> <<"yomu", "n", "de">>,
    polite |-> <<"o", "yomu", "mi", "i", "ta", "da", "ke", "ma", "se", "n", "ka">>],
   \* 連絡して -> ご連絡いただけませんか
   [casual |-> <<"tsura", "kara", "shi", "te">>,
    polite |-> <<"go", "tsura", "kara", "i", "ta", "da", "ke", "ma", "se", "n", "ka">>],
   \* 報告して -> ご報告いただけませんか
   [casual |-> <<"mukui", "tsuge", "shi", "te">>,
    polite |-> <<"go", "mukui", "tsuge", "i", "ta", "da", "ke", "ma", "se", "n", "ka">>],
   \* 手伝って -> お手伝いいただけませんか
   [casual |-> <<"hand", "tsuta", "small_tsu", "te">>,
    polite |-> <<"o", "hand", "tsuta", "i", "i", "ta", "da", "ke", "ma", "se", "n", "ka">>],
   \* 待って -> お待ちいただけませんか
   [casual |-> <<"mata", "small_tsu", "te">>,
    polite |-> <<"o", "mata", "chi", "i", "ta", "da", "ke", "ma", "se", "n", "ka">>],
   \* 変更して -> 変更していただけませんか
   [casual |-> <<"kawa", "sara", "shi", "te">>,
    polite |-> <<"kawa", "sara", "shi", "te", "i", "ta", "da", "ke", "ma", "se", "n", "ka">>],
   \* 更新して -> 更新していただけませんか
   [casual |-> <<"sara", "atara", "shi", "te">>,
    polite |-> <<"sara", "atara", "shi", "te", "i", "ta", "da", "ke", "ma", "se", "n",
               "ka">>]
  >>

\* conversionData.contextual
contextual ==
  [business |-> <<
      \* やって -> お忙しい中恐縮ですが、対応していただけますでしょうか
      [casual |-> <<"ya", "small_tsu", "te">>,
       polite |-> <<"o", "isoga", "shi", "i", "naka", "oso", "shuku", "de", "su", "ga",
                  "ten", "tsui", "kotae", "shi", "te", "i", "ta", "da",
                  "ke", "ma", "su", "de", "shi", "small_yo", "u", "ka">>],
      \* 確認して -> お時間のある際に、ご確認いただけると助かります
      [casual |-> <<"kaku", "nin", "shi", "te">>,
       polite |-> <<"o", "toki", "aida", "no", "a", "ru", "kiwa", "ni", "ten", "go", "kaku",
                  "nin", "i", "ta", "da", "ke", "ru", "to", "tasu", "ka",
                  "ri", "ma", "su">>],
      \* 教えて -> もしよろしければ、教えていただけませんでしょうか
      [casual |-> <<"oshi", "e", "te">>,
       polite |-> <<"mo", "shi", "yo", "ro", "shi", "ke", "re", "ba", "ten", "oshi", "e",
                  "te", "i", "ta", "da", "ke", "ma", "se", "n", "de",
                  "shi", "small_yo", "u", "ka">>]
     >>,
   urgent |-> <<
      \* やって -> 急ぎで恐縮ですが、対応していただけませんでしょうか
      [casual |-> <<"ya", "small_tsu", "te">>,
       polite |-> <<"iso", "gi", "de", "oso", "shuku", "de", "su", "ga", "ten", "tsui",
                  "kotae", "shi", "te", "i", "ta", "da", "ke", "ma", "se",
                  "n", "de", "shi", "small_yo", "u", "ka">>],
      \* 確認して -> 至急確認していただけますでしょうか
      [casual |-> <<"kaku", "nin", "shi", "te">>,
       polite |-> <<"itaru", "iso", "kaku", "nin", "shi", "te", "i", "ta", "da", "ke", "ma",
                  "su", "de", "shi", "small_yo", "u", "ka">>],
      \* 教えて -> 緊急でお聞きしたいことがあるのですが
      [casual |-> <<"oshi", "e", "te">>,
       polite |-> <<"kin", "iso", "de", "o", "bun_hear", "ki", "shi", "ta", "i", "ko", "to",
                  "ga", "a", "ru", "no", "de", "su", "ga">>]
     >>,
   superior |-> <<
      \* やって -> お忙しい中申し訳ございませんが、対応していただけますでしょうか
      [casual |-> <<"ya", "small_tsu", "te">>,
       polite |-> <<"o", "isoga", "shi", "i", "naka", "mou", "shi", "wake", "go", "za", "i",
                  "ma", "se", "n", "ga", "ten", "tsui", "kotae", "shi",
                  "te", "i", "ta", "da", "ke", "ma", "su", "de", "shi",
                  "small_yo", "u", "ka">>],
      \* 確認して -> 恐れ入りますが、ご確認いただけますでしょうか
      [casual |-> <<"kaku", "nin", "shi", "te">>,
       polite |-> <<"oso", "re", "iri", "ri", "ma", "su", "ga", "ten", "go", "kaku", "nin",
                  "i", "ta", "da", "ke", "ma", "su", "de", "shi",
                  "small_yo", "u", "ka">>],
      \* 教えて -> 不躾な質問で申し訳ございませんが、教えていただけませんでしょうか
      [casual |-> <<"oshi", "e", "te">>,
       polite |-> <<"hu", "shitsuke", "na", "shichi", "mon", "de", "mou", "shi", "wake",
                  "go", "za", "i", "ma", "se", "n", "ga", "ten", "oshi",
                  "e", "te", "i", "ta", "da", "ke", "ma", "se", "n", "de",
                  "shi", "small_yo", "u", "ka">>]
     >>]

\* result.match(regex).length for new RegExp(casual, 'g'): the occurrences met from
\* the left, each starting after the end of the one before
RECURSIVE Occurrences(_, _)
Occurrences(text, casual) ==
  LET at == {p \in 1..(Len(text) - Len(casual) + 1) : MatchesAt(text, p, casual)}
  IN  IF at = {} THEN 0
      ELSE LET first == CHOOSE p \in at : \A q \in at : p <= q
           IN  1 + Occurrences(SubSeq(text, first + Len(casual), Len(text)), casual)

\* result.replace(regex, polite)
RECURSIVE ReplaceAll(_, _, _)
ReplaceAll(text, casual, polite) ==
  LET at == {p \in 1..(Len(text) - Len(casual) + 1) : MatchesAt(text, p, casual)}
  IN  IF at = {} THEN text
      ELSE LET first == CHOOSE p \in at : \A q \in at : p <= q
           IN  SubSeq(text, 1, first - 1) \o polite
                 \o ReplaceAll(SubSeq(text, first + Len(casual), Len(text)), casual, polite)

\* for (const [casual, polite] of Object.entries(...)): every entry in turn, on the
\* text the entries before it left
RECURSIVE ApplyEntries(_, _, _, _)
ApplyEntries(entries, type, text, conversions) ==
  IF entries = <<>> THEN [text |-> text, conversions |-> conversions]
  ELSE LET casual == Head(entries).casual
           polite == Head(entries).polite
           replaced == IF Contains(text, casual)
                       THEN [text |-> ReplaceAll(text, casual, polite),
                             conversions |->
                               Append(conversions,
                                      [type |-> type, original |-> casual,
                                       converted |-> polite,
                                       count |-> Occurrences(text, casual)])]
                       ELSE [text |-> text, conversions |-> conversions]
       IN  CHOOSE result \in {ApplyEntries(Tail(entries), type, s.text, s.conversions) :
                                s \in {replaced}} : TRUE

convertWords(text, conversions) == ApplyEntries(words, "word", text, conversions)

\* { ...phraseSet, ...extra }: a key keeps its place and takes the later value
Spread(phraseSet, extra) ==
  [i \in DOMAIN phraseSet |->
     IF \E j \in DOMAIN extra : extra[j].casual = phraseSet[i].casual
     THEN extra[CHOOSE j \in DOMAIN extra : extra[j].casual = phraseSet[i].casual]
     ELSE phraseSet[i]]
  \o SelectSeq(extra, LAMBDA e : \A i \in DOMAIN phraseSet : phraseSet[i].casual # e.casual)

convertPhrases(text, context, conversions) ==
  LET set1 == IF context.situation = "business"
              THEN Spread(phrases, contextual.business) ELSE phrases
      set2 == IF context.urgency = "urgent" THEN Spread(set1, contextual.urgent) ELSE set1
      phraseSet == IF context.relationship = "superior"
                   THEN Spread(set2, contextual.superior) ELSE set2
  IN  ApplyEntries(phraseSet, "phrase", text, conversions)

handleSpecialPatterns(text, conversions) ==
  LET Pattern(original, converted) ==
        [type |-> "pattern", original |-> original, converted |-> converted]
      \* result.replace(/(.+)casual/g, content + polite): the greedy group runs to
      \* the last casual ending that has a character before it
      Ending(s, casual, polite) ==
        LET at == {p \in 2..Len(s.text) : MatchesAt(s.text, p, casual)}
        IN  IF at = {} THEN s
            ELSE LET p == CHOOSE q \in at : \A r \in at : r <= q
                     content == SubSeq(s.text, 1, p - 1)
                 IN  [text |-> content \o polite
                                \o SubSeq(s.text, p + Len(casual), Len(s.text)),
                      conversions |-> Append(s.conversions,
                                             Pattern(content \o casual, content \o polite))]
      \* /なんで(.+)？/g: from the first なんで that has a ？ behind it, one character
      \* or more later, to the last ？
      Why(s) ==
        LET nande == <<"na", "n", "de">>
            q == "wide_question"
            naze == <<"na", "ze">>
            polite == <<"no", "de", "shi", "small_yo", "u", "ka", "wide_question">>
            ends == {p \in 1..Len(s.text) : s.text[p] = q}
            starts == {p \in 1..Len(s.text) :
                         MatchesAt(s.text, p, nande) /\ \E e \in ends : e >= p + 4}
        IN  IF starts = {} THEN s
            ELSE LET p == CHOOSE a \in starts : \A b \in starts : a <= b
                     e == CHOOSE a \in ends : \A b \in ends : b <= a
                     content == SubSeq(s.text, p + 3, e - 1)
                     converted == naze \o content \o polite
                 IN  [text |-> SubSeq(s.text, 1, p - 1) \o converted
                                \o SubSeq(s.text, e + 1, Len(s.text)),
                      conversions |-> Append(s.conversions,
                                             Pattern(SubSeq(s.text, p, e), converted))]
      \* /^([ぁ-んァ-ヶー]+)$/
      Command(s) ==
        LET shite == <<"shi", "te">>
            yatte == <<"ya", "small_tsu", "te">>
            EndsWith(part) == MatchesAt(s.text, Len(s.text) - Len(part) + 1, part)
            polite == s.text \o <<"wo", "o", "nega", "i", "shi", "ma", "su">>
        IN  IF \/ s.text = <<>>
               \/ \E i \in DOMAIN s.text : ~IsKana(s.text[i])
               \/ EndsWith(shite)
               \/ EndsWith(yatte)
            THEN s
            ELSE [text |-> polite,
                  conversions |-> Append(s.conversions, Pattern(s.text, polite))]
      s1 == Ending([text |-> text, conversions |-> conversions],
                   <<"da", "small_tsu", "ke", "wide_question">>,
                   <<"de", "shi", "ta", "de", "shi", "small_yo", "u", "ka", "wide_question">>)
      s2 == Ending(s1, <<"ji", "small_ya", "n">>, <<"de", "su", "ne">>)
      s3 == Ending(s2, <<"da", "yo", "ne">>, <<"de", "su", "yo", "ne">>)
      s4 == Ending(s3, <<"small_tsu", "te", "iu", "small_tsu", "te">>,
                   <<"to", "o", "tsuta", "e", "ku", "da", "sa", "i">>)
  IN  Command(Why(s4))

\* WordConverter.convertText
wordConverterConvertText(text, context) ==
  LET first == convertWords(text, <<>>)
      second == convertPhrases(first.text, context, first.conversions)
      third == handleSpecialPatterns(second.text, second.conversions)
  IN  [text |-> third.text,
       conversions |-> third.conversions,
       originalLength |-> Len(text),
       convertedLength |-> Len(third.text)]

(***************************************************************************)
(* WordConverter.convertText on a text put together from at most two of    *)
(* these pieces, in the contexts that choose among the phrase sets.        *)
(***************************************************************************)
\* アプデ バグ レス リスケ ヤバい NG チェック リリース レビュー スケジュール レスポンス サポート 確認して
\* やって 教えて 資料 だっけ？ じゃん なんで ？ の
WordPieces ==
  {<<"A", "PU", "DE">>, <<"BA", "GU">>, <<"RE", "SU">>, <<"RI", "SU", "KE">>,
   <<"YA", "BA", "i">>, <<"latin_N", "latin_G">>,
   <<"CHI", "small_E", "small_TSU", "KU">>, <<"RI", "RI", "long", "SU">>,
   <<"RE", "BI", "small_YU", "long">>, <<"SU", "KE", "JI", "small_YU", "long", "RU">>,
   <<"RE", "SU", "PO", "N", "SU">>, <<"SA", "PO", "long", "TO">>,
   <<"kaku", "nin", "shi", "te">>, <<"ya", "small_tsu", "te">>, <<"oshi", "e", "te">>,
   <<"moto", "ryouri">>, <<"da", "small_tsu", "ke", "wide_question">>,
   <<"ji", "small_ya", "n">>, <<"na", "n", "de">>, <<"wide_question">>, <<"no">>}

WordTexts == {<<>>} \cup WordPieces \cup {a \o b : a \in WordPieces, b \in WordPieces}

WordContexts ==
  {[situation |-> s, urgency |-> u, relationship |-> r] :
     s \in {"business", "general"}, u \in {"urgent", "normal"},
     r \in {"superior", "unknown"}}

InitWords ==
  /\ InitEngine
  /\ workload = <<>>
  /\ script = <<>>
  /\ InitFeedback
  /\ input \in {[text |-> t, context |-> c] : t \in WordTexts, c \in WordContexts}
  /\ output = <<>>
  /\ InitConverters
  /\ traffic = NoTraffic
  /\ lastOp = "init"

ConvertWordsOfText ==
  /\ lastOp = "init"
  /\ output' = wordConverterConvertText(input.text, input.context)
  /\ lastOp' = "convertText"
  /\ UNCHANGED <<engineVars, feedbackVars, input, converterVars>>

NextWords == ConvertWordsOfText

SpecWords == InitWords /\ [][NextWords]_vars

\* C14: for every input that contains a key of the casual-word dictionary, the output
\* text of WordConverter.convertText contains the polite form mapped to that key and
\* no longer contains the key, and the conversion log holds exactly one entry for the
\* key, with count >= 1; also when a polite form or a key contains another key.
C14_EveryKeyConverted ==
  lastOp = "convertText" =>
    \A k \in DOMAIN words :
      Contains(input.text, words[k].casual) =>
        /\ Contains(output.text, words[k].polite)
        /\ ~Contains(output.text, words[k].casual)
        /\ Cardinality({i \in DOMAIN output.conversions :
                          /\ output.conversions[i].type = "word"
                          /\ output.conversions[i].original = words[k].casual
                          /\ output.conversions[i].count >= 1}) = 1
        /\ Cardinality({i \in DOMAIN output.conversions :
                          output.conversions[i].original = words[k].casual}) = 1

(***************************************************************************)
(* SentenceGenerator.  Math.random chooses among phrases, so an operation  *)
(* that draws is modelled by the set of everything it can return.  null is *)
(* the empty text: the source tests both for truth only.                   *)
(***************************************************************************)

expressions ==
  [greetings |->
     [
      \* おはようございます お疲れ様です 朝からお忙しい中
      morning |->
        <<<<"o", "ha", "yo", "u", "go", "za", "i", "ma", "su">>,
          <<"o", "tsuka", "re", "sama_k", "de", "su">>,
          <<"asa", "ka", "ra", "o", "isoga", "shi", "i", "naka">>>>,
      \* お疲れ様です いつもお世話になっております 午後もお忙しい中
      afternoon |->
        <<<<"o", "tsuka", "re", "sama_k", "de", "su">>,
          <<"i", "tsu", "mo", "o", "yono", "hanashi", "ni", "na", "small_tsu", "te", "o", "ri", "ma", "su">>,
          <<"uma", "ato", "mo", "o", "isoga", "shi", "i", "naka">>>>,
      \* お疲れ様でした 遅い時間に恐縮です 本日もお疲れ様です
      evening |->
        <<<<"o", "tsuka", "re", "sama_k", "de", "shi", "ta">>,
          <<"oso_i", "i", "toki", "aida", "ni", "oso", "shuku", "de", "su">>,
          <<"hon", "nichi", "mo", "o", "tsuka", "re", "sama_k", "de", "su">>>>,
      \* いつもお世話になっております お疲れ様です 恐れ入ります
      general |->
        <<<<"i", "tsu", "mo", "o", "yono", "hanashi", "ni", "na", "small_tsu", "te", "o", "ri", "ma", "su">>,
          <<"o", "tsuka", "re", "sama_k", "de", "su">>,
          <<"oso", "re", "iri", "ri", "ma", "su">>>>
     ],
   cushions |->
     [
      \* お忙しい中恐縮ですが もしよろしければ お手数をおかけしますが ご都合がつく際に お時間のある時に 恐れ入りますが
      request |->
        <<<<"o", "isoga", "shi", "i", "naka", "oso", "shuku", "de", "su", "ga">>,
          <<"mo", "shi", "yo", "ro", "shi", "ke", "re", "ba">>,
          <<"o", "hand", "kazu", "wo", "o", "ka", "ke", "shi", "ma", "su", "ga">>,
          <<"go", "miyako", "au", "ga", "tsu", "ku", "kiwa", "ni">>,
          <<"o", "toki", "aida", "no", "a", "ru", "toki", "ni">>,
          <<"oso", "re", "iri", "ri", "ma", "su", "ga">>>>,
      \* 急ぎで恐縮ですが 緊急でお願いがあります 至急で申し訳ございませんが 大変恐縮ですが急ぎで
      \* お忙しい中申し訳ございませんが緊急で
      urgent |->
        <<<<"iso", "gi", "de", "oso", "shuku", "de", "su", "ga">>,
          <<"kin", "iso", "de", "o", "nega", "i", "ga", "a", "ri", "ma", "su">>,
          <<"itaru", "iso", "de", "mou", "shi", "wake", "go", "za", "i", "ma", "se", "n", "ga">>,
          <<"dai", "kawa", "oso", "shuku", "de", "su", "ga", "iso", "gi", "de">>,
          <<"o", "isoga", "shi", "i", "naka", "mou", "shi", "wake", "go", "za", "i", "ma", "se", "n", "ga", "kin", "iso", "de">>>>,
      \* お忙しい中申し訳ございませんが 恐れ入りますが 不躾なお願いで申し訳ございませんが ご多忙中恐縮ですが
      \* お時間をいただき恐縮ですが
      superior |->
        <<<<"o", "isoga", "shi", "i", "naka", "mou", "shi", "wake", "go", "za", "i", "ma", "se", "n", "ga">>,
          <<"oso", "re", "iri", "ri", "ma", "su", "ga">>,
          <<"hu", "shitsuke", "na", "o", "nega", "i", "de", "mou", "shi", "wake", "go", "za", "i", "ma", "se", "n", "ga">>,
          <<"go", "ooi", "isoga", "naka", "oso", "shuku", "de", "su", "ga">>,
          <<"o", "toki", "aida", "wo", "i", "ta", "da", "ki", "oso", "shuku", "de", "su", "ga">>>>,
      \* よろしければ もしお時間があるときに お疲れ様です いつもありがとうございます
      casual |->
        <<<<"yo", "ro", "shi", "ke", "re", "ba">>,
          <<"mo", "shi", "o", "toki", "aida", "ga", "a", "ru", "to", "ki", "ni">>,
          <<"o", "tsuka", "re", "sama_k", "de", "su">>,
          <<"i", "tsu", "mo", "a", "ri", "ga", "to", "u", "go", "za", "i", "ma", "su">>>>
     ],
   closings |->
     [
      \* よろしくお願いいたします ご検討のほどよろしくお願いします お忙しい中ありがとうございます どうぞよろしくお願いします
      request |->
        <<<<"yo", "ro", "shi", "ku", "o", "nega", "i", "i", "ta", "shi", "ma", "su">>,
          <<"go", "ken_exam", "tou_attack", "no", "ho", "do", "yo", "ro", "shi", "ku", "o", "nega", "i", "shi", "ma", "su">>,
          <<"o", "isoga", "shi", "i", "naka", "a", "ri", "ga", "to", "u", "go", "za", "i", "ma", "su">>,
          <<"do", "u", "zo", "yo", "ro", "shi", "ku", "o", "nega", "i", "shi", "ma", "su">>>>,
      \* お教えいただけますと幸いです ご回答いただければと思います お聞かせいただけませんでしょうか ご意見をお聞かせください
      question |->
        <<<<"o", "oshi", "e", "i", "ta", "da", "ke", "ma", "su", "to", "saiwa", "i", "de", "su">>,
          <<"go", "mawa", "kota", "i", "ta", "da", "ke", "re", "ba", "to", "omo", "i", "ma", "su">>,
          <<"o", "bun_hear", "ka", "se", "i", "ta", "da", "ke", "ma", "se", "n", "de", "shi", "small_yo", "u", "ka">>,
          <<"go", "ishi", "miru", "wo", "o", "bun_hear", "ka", "se", "ku", "da", "sa", "i">>>>,
      \* 急ぎで申し訳ございませんが、よろしくお願いします お忙しい中恐縮ですが、お急ぎでお願いします
      \* 至急対応していただけますと助かります
      urgent |->
        <<<<"iso", "gi", "de", "mou", "shi", "wake", "go", "za", "i", "ma", "se", "n", "ga", "ten", "yo", "ro", "shi", "ku", "o", "nega", "i", "shi", "ma", "su">>,
          <<"o", "isoga", "shi", "i", "naka", "oso", "shuku", "de", "su", "ga", "ten", "o", "iso", "gi", "de", "o", "nega", "i", "shi", "ma", "su">>,
          <<"itaru", "iso", "tsui", "kotae", "shi", "te", "i", "ta", "da", "ke", "ma", "su", "to", "tasu", "ka", "ri", "ma", "su">>>>,
      \* いつもありがとうございます お忙しい中ありがとうございました ご協力いただきありがとうございます 心より感謝申し上げます
      gratitude |->
        <<<<"i", "tsu", "mo", "a", "ri", "ga", "to", "u", "go", "za", "i", "ma", "su">>,
          <<"o", "isoga", "shi", "i", "naka", "a", "ri", "ga", "to", "u", "go", "za", "i", "ma", "shi", "ta">>,
          <<"go", "kanau", "chikara", "i", "ta", "da", "ki", "a", "ri", "ga", "to", "u", "go", "za", "i", "ma", "su">>,
          <<"kokoro", "yo", "ri", "kanjiru", "ayama", "mou", "shi", "ue", "ge", "ma", "su">>>>
     ]]

\* getRandomElement(array): every element it can return
getRandomElement(array) == {array[i] : i \in DOMAIN array}

\* text.replace(/a|b|c/g, ''): the occurrences met from the left are taken out
RECURSIVE RemoveAll(_, _)
RemoveAll(text, parts) ==
  IF text = <<>> THEN <<>>
  ELSE IF \E part \in parts : MatchesAt(text, 1, part)
       THEN LET part == CHOOSE p \in parts : MatchesAt(text, 1, p)
            IN  RemoveAll(SubSeq(text, Len(part) + 1, Len(text)), parts)
       ELSE <<Head(text)>> \o RemoveAll(Tail(text), parts)

\* String.prototype.trim
RECURSIVE Trim(_)
Trim(text) ==
  IF text = <<>> THEN text
  ELSE IF Head(text) \in Whitespace THEN Trim(Tail(text))
  ELSE IF text[Len(text)] \in Whitespace THEN Trim(SubSeq(text, 1, Len(text) - 1))
  ELSE text

\* text.replace(/\s+/g, ' '): every run of whitespace becomes one space.  The two
\* halves are collapsed and a run that spans the middle is joined.
RECURSIVE CollapseSpaces(_)
CollapseSpaces(text) ==
  IF text = <<>> THEN text
  ELSE IF Len(text) = 1 THEN (IF text[1] \in Whitespace THEN <<"sp">> ELSE text)
  ELSE LET half == Len(text) \div 2
           left == CollapseSpaces(SubSeq(text, 1, half))
           right == CollapseSpaces(SubSeq(text, half + 1, Len(text)))
       IN  IF left[Len(left)] = "sp" /\ right[1] = "sp"
           THEN left \o Tail(right)
           ELSE left \o right

SomePart(text, parts) == \E part \in parts : Contains(text, part)

EndsWith(text, part) == MatchesAt(text, Len(text) - Len(part) + 1, part)

extractMainContent(text) ==
  Trim(RemoveAll(RemoveAll(text,
                           \* ちょっと|やっぱり|とりあえず
                           {<<"chi", "small_yo", "small_tsu", "to">>,
                            <<"ya", "small_tsu", "pa", "ri">>,
                            <<"to", "ri", "a", "e", "zu">>}),
                 \* だよね|じゃん|だっけ
                 {<<"da", "yo", "ne">>, <<"ji", "small_ya", "n">>,
                  <<"da", "small_tsu", "ke">>}))

identifyRequestType(text) ==
  IF SomePart(text, {<<"kaku", "nin">>, <<"CHI", "small_E", "small_TSU", "KU">>,
                   <<"miru", "te">>})
  THEN "verification"
  ELSE IF SomePart(text, {<<"oshi", "e", "te">>, <<"bun_hear", "ki", "ta", "i">>,
                   <<"shichi", "mon">>})
  THEN "information"
  ELSE IF SomePart(text, {<<"tsuku", "small_tsu", "te">>, <<"ya", "small_tsu", "te">>,
                   <<"tsui", "kotae">>})
  THEN "action"
  ELSE IF SomePart(text, {<<"oku", "small_tsu", "te">>, <<"tomo", "aru">>})
  THEN "sharing"
  ELSE IF SomePart(text, {<<"kai", "hakaru">>, <<"utsu_hit", "chi", "au", "wa", "se">>,
                   <<"MI", "long", "TE", "small_I", "N", "GU">>})
  THEN "meeting"
  ELSE IF SomePart(text, {<<"mukui", "tsuge">>, <<"tsura", "kara">>,
                   <<"o", "shiru", "ra", "se">>})
  THEN "notification"
  ELSE "general"

detectEmotionalTone(text) ==
  IF SomePart(text, {<<"iso">>, <<"kin", "iso">>, <<"itaru", "iso">>, <<"YA", "BA", "i">>,
                   <<"MA", "JI", "de">>})
  THEN "urgent"
  ELSE IF SomePart(text, {<<"a", "ri", "ga", "to", "u">>, <<"kanjiru", "ayama">>,
                   <<"tasu", "ka", "ru">>})
  THEN "grateful"
  ELSE IF SomePart(text, {<<"su", "mi", "ma", "se", "n">>, <<"mou", "shi", "wake">>,
                   <<"go", "me", "n">>})
  THEN "apologetic"
  ELSE IF SomePart(text, {<<"koma", "small_tsu", "te">>, <<"mon", "dai_topic">>,
                   <<"TO", "RA", "BU", "RU">>})
  THEN "troubled"
  ELSE IF SomePart(text, {<<"yo", "ro", "shi", "ku">>, <<"o", "nega", "i">>})
  THEN "requesting"
  ELSE "neutral"

\* keyWords is left out: nothing reads it
analyzeTextComponents(text) ==
  [mainContent |-> extractMainContent(text),
   requestType |-> identifyRequestType(text),
   emotionalTone |-> detectEmotionalTone(text),
   hasQuestion |-> Contains(text, <<"wide_question">>) \/ Contains(text, <<"question">>),
   hasRequest |-> SomePart(text, {<<"shi", "te">>, <<"ya", "small_tsu", "te">>,
                           <<"o", "nega", "i">>}),
   length |-> Len(text)]

selectGreeting(context) ==
  IF context.timeContext \in DOMAIN expressions.greetings
  THEN getRandomElement(expressions.greetings[context.timeContext])
  ELSE getRandomElement(expressions.greetings.general)

\* Mutant: the cushion is left out at level 1 only.
selectCushionFromTwo(components, context, level) ==
  IF level <= 1 THEN {<<>>}
  ELSE IF components.emotionalTone = "urgent"
  THEN getRandomElement(expressions.cushions.urgent)
  ELSE IF context.relationship = "superior"
  THEN getRandomElement(expressions.cushions.superior)
  ELSE IF components.requestType = "action" \/ components.hasRequest
  THEN getRandomElement(expressions.cushions.request)
  ELSE getRandomElement(expressions.cushions.casual)

selectCushion(components, context, level) ==
  IF level <= 2 THEN {<<>>}
  ELSE IF components.emotionalTone = "urgent"
  THEN getRandomElement(expressions.cushions.urgent)
  ELSE IF context.relationship = "superior"
  THEN getRandomElement(expressions.cushions.superior)
  ELSE IF components.requestType = "action" \/ components.hasRequest
  THEN getRandomElement(expressions.cushions.request)
  ELSE getRandomElement(expressions.cushions.casual)

applyWordTransformations(text) ==
  LET wordMappings ==
        <<
         \* アプデ -> アップデート
         [casual |-> <<"A", "PU", "DE">>,
          polite |-> <<"A", "small_TSU", "PU", "DE", "long", "TO">>],
         \* バグ -> 不具合
         [casual |-> <<"BA", "GU">>,
          polite |-> <<"hu", "sonae", "au">>],
         \* チェック -> ご確認
         [casual |-> <<"CHI", "small_E", "small_TSU", "KU">>,
          polite |-> <<"go", "kaku", "nin">>],
         \* やって -> ご対応
         [casual |-> <<"ya", "small_tsu", "te">>,
          polite |-> <<"go", "tsui", "kotae">>],
         \* して -> していただく
         [casual |-> <<"shi", "te">>,
          polite |-> <<"shi", "te", "i", "ta", "da", "ku">>],
         \* マジで -> 非常に
         [casual |-> <<"MA", "JI", "de">>,
          polite |-> <<"ara_zu", "tsune", "ni">>],
         \* ヤバい -> 大変な状況
         [casual |-> <<"YA", "BA", "i">>,
          polite |-> <<"dai", "kawa", "na", "jou", "mashite">>]
        >>
  IN  ApplyEntries(wordMappings, "word", text, <<>>).text

applyPhraseTransformations(text, level) ==
  LET \* 確認して: ご確認いただけますでしょうか, ご確認ください
      r1 == ReplaceAll(text, <<"kaku", "nin", "shi", "te">>,
                       IF level >= 4
                       THEN <<"go", "kaku", "nin", "i", "ta", "da", "ke", "ma",
                            "su", "de", "shi",
                            "small_yo", "u", "ka">>
                       ELSE <<"go", "kaku", "nin", "ku", "da", "sa", "i">>)
      \* 教えて: お教えいただけませんでしょうか, お教えください
      r2 == ReplaceAll(r1, <<"oshi", "e", "te">>,
                       IF level >= 3
                       THEN <<"o", "oshi", "e", "i", "ta", "da", "ke", "ma", "se",
                            "n", "de", "shi",
                            "small_yo", "u", "ka">>
                       ELSE <<"o", "oshi", "e", "ku", "da", "sa", "i">>)
      \* 送って: お送りいただけませんでしょうか, お送りください
  IN  ReplaceAll(r2, <<"oku", "small_tsu", "te">>,
                 IF level >= 3
                 THEN <<"o", "oku", "ri", "i", "ta", "da", "ke", "ma", "se", "n",
                      "de", "shi", "small_yo", "u", "ka">>
                 ELSE <<"o", "oku", "ri", "ku", "da", "sa", "i">>)

applySentenceAdjustments(text, components, level) ==
  IF \/ EndsWith(text, <<"maru">>)
     \/ EndsWith(text, <<"wide_question">>)
     \/ EndsWith(text, <<"de", "su">>)
     \/ EndsWith(text, <<"ma", "su">>)
  THEN text
  ELSE IF components.hasQuestion
  THEN text \o (IF level >= 3
                \* でしょうか？ ですか？
                THEN <<"de", "shi", "small_yo", "u", "ka", "wide_question">>
                ELSE <<"de", "su", "ka", "wide_question">>)
  ELSE text \o (IF level >= 3
                \* いただけますでしょうか。 お願いします。
                THEN <<"i", "ta", "da", "ke", "ma", "su", "de", "shi", "small_yo",
                     "u", "ka", "maru">>
                ELSE <<"o", "nega", "i", "shi", "ma", "su", "maru">>)

transformMainContent(components, context, level) ==
  applySentenceAdjustments(
    applyPhraseTransformations(applyWordTransformations(components.mainContent), level),
    components, level)

selectClosing(components, context, level) ==
  IF level <= 2 THEN {<<>>}
  ELSE IF components.hasQuestion THEN getRandomElement(expressions.closings.question)
  ELSE IF components.emotionalTone = "urgent"
  THEN getRandomElement(expressions.closings.urgent)
  ELSE IF components.emotionalTone = "grateful"
  THEN getRandomElement(expressions.closings.gratitude)
  ELSE getRandomElement(expressions.closings.request)

\* 何かご不明な点がございましたら、お気軽にお声かけください。
Fumei ==
  <<"nani", "ka", "go", "hu", "aka", "na", "ten_point", "ga", "go", "za", "i",
    "ma", "shi", "ta", "ra", "ten", "o", "ki_spirit", "karu", "ni", "o", "koe",
    "ka", "ke", "ku", "da", "sa", "i", "maru">>

\* ご多忙中にも関わらず、いつもありがとうございます。
Gotabou ==
  <<"go", "ooi", "isoga", "naka", "ni", "mo", "seki", "wa", "ra", "zu", "ten",
    "i", "tsu", "mo", "a", "ri", "ga", "to", "u", "go", "za", "i", "ma", "su",
    "maru">>

\* Math.random() > 0.5 falls either way
addCourtesyElements(context) ==
  IF context.relationship = "superior"
  THEN {Fumei \o <<"sp">> \o Gotabou, Gotabou}
  ELSE {Fumei, <<>>}

planSentenceStructure(components, context, level) ==
  {[greeting |-> greeting, cushion |-> cushion,
    mainBody |-> transformMainContent(components, context, level),
    closing |-> closing, additionalCourtesy |-> additionalCourtesy] :
     greeting \in selectGreeting(context),
     cushion \in selectCushion(components, context, level),
     closing \in selectClosing(components, context, level),
     additionalCourtesy \in IF level >= 4 THEN addCourtesyElements(context) ELSE {<<>>}}

emojis ==
  [
   \* 🙏 💦 ✨
   request |-> <<"folded_hands", "sweat", "sparkles">>,
   \* ❓ 🤔 💭
   question |-> <<"red_question", "thinking", "thought_balloon">>,
   \* ⚡ 🔥 💦
   urgent |-> <<"high_voltage", "fire", "sweat">>,
   \* 😊 🙏 ✨
   grateful |-> <<"smiling", "folded_hands", "sparkles">>,
   \* 😊 ✨ 🌸
   general |-> <<"smiling", "sparkles", "blossom">>
  ]

determineEmojiContext(text) ==
  IF SomePart(text, {<<"o", "nega", "i">>, <<"i", "ta", "da", "ke">>})
  THEN "request"
  ELSE IF SomePart(text, {<<"de", "shi", "small_yo", "u", "ka">>, <<"ma", "su", "ka">>})
  THEN "question"
  ELSE IF SomePart(text, {<<"iso">>, <<"itaru", "iso">>, <<"kin", "iso">>})
  THEN "urgent"
  ELSE IF SomePart(text, {<<"a", "ri", "ga", "to", "u">>, <<"kanjiru", "ayama">>})
  THEN "grateful"
  ELSE "general"

addEmoji(text, context) ==
  {text \o <<"sp", selectedEmoji>> :
     selectedEmoji \in getRandomElement(emojis[determineEmojiContext(text)])}

\* parts.join(' ')
RECURSIVE Join(_)
Join(parts) ==
  IF parts = <<>> THEN <<>>
  ELSE IF Len(parts) = 1 THEN parts[1]
  ELSE parts[1] \o <<"sp">> \o Join(Tail(parts))

assembleSentence(structure, context, level) ==
  LET parts ==
        (IF level >= 3 /\ structure.greeting # <<>>
         THEN <<structure.greeting \o <<"maru">>>> ELSE <<>>)
        \o (IF structure.cushion # <<>> THEN <<structure.cushion \o <<"ten">>>> ELSE <<>>)
        \o <<structure.mainBody>>
        \o (IF structure.closing # <<>> THEN <<structure.closing \o <<"maru">>>> ELSE <<>>)
        \o (IF structure.additionalCourtesy # <<>>
            THEN <<structure.additionalCourtesy>> ELSE <<>>)
      result == Trim(CollapseSpaces(Join(parts)))
  IN  IF level >= 4 THEN addEmoji(result, context) ELSE {result}

generatePoliteVersion(originalText, context, level) ==
  UNION {assembleSentence(structure, context, level) :
           structure \in planSentenceStructure(analyzeTextComponents(originalText),
                                               context, level)}

\* generateVariations with generateStyleVariations: what each candidate can read
sentenceVariations(originalText, context, baseLevel) ==
  LET levels == generateVariations(baseLevel)
      businessContext == [context EXCEPT !.situation = "business",
                                         !.relationship = "superior"]
      friendlyContext == [context EXCEPT !.situation = "casual",
                                         !.relationship = "colleague"]
  IN  [i \in DOMAIN levels |->
         IF i <= Len(levels) - 2
         THEN [level |-> levels[i], style |-> "level",
               texts |-> generatePoliteVersion(originalText, context, levels[i])]
         ELSE IF i = Len(levels) - 1
         THEN [level |-> levels[i], style |-> "business",
               texts |-> generatePoliteVersion(originalText, businessContext, levels[i])]
         ELSE [level |-> levels[i], style |-> "friendly",
               texts |-> generatePoliteVersion(originalText, friendlyContext, levels[i])]]

(***************************************************************************)
(* generatePoliteVersion and generateVariations on a text put together     *)
(* from these pieces, at every level, in the contexts the generator reads. *)
(***************************************************************************)
\* 確認して バグ 資料を送って 急いで ありがとう ？ ちょっと です やって (space)
SentencePieces ==
  {<<"kaku", "nin", "shi", "te">>, <<"BA", "GU">>,
   <<"moto", "ryouri", "wo", "oku", "small_tsu", "te">>, <<"iso", "i", "de">>,
   <<"a", "ri", "ga", "to", "u">>, <<"wide_question">>,
   <<"chi", "small_yo", "small_tsu", "to">>, <<"de", "su">>,
   <<"ya", "small_tsu", "te">>, <<"sp">>}

\* ？ ます
SentenceTails == {<<"wide_question">>, <<"ma", "su">>}

SentenceTexts ==
  {<<>>} \cup SentencePieces \cup {a \o b : a \in SentencePieces, b \in SentenceTails}

SentenceContexts ==
  {[timeContext |-> t, relationship |-> r, situation |-> "general"] :
     t \in {"morning", "general"}, r \in {"superior", "unknown"}}

Levels == 1..TopLevel

InitSentence ==
  /\ InitEngine
  /\ workload = <<>>
  /\ script = <<>>
  /\ InitFeedback
  /\ input \in {[text |-> t, context |-> c, level |-> l] :
                  t \in SentenceTexts, c \in SentenceContexts, l \in Levels}
  /\ output = <<>>
  /\ InitConverters
  /\ traffic = NoTraffic
  /\ lastOp = "init"

GeneratePoliteVersion ==
  /\ lastOp = "init"
  /\ \E text \in generatePoliteVersion(input.text, input.context, input.level) :
       output' = [text |-> text]
  /\ lastOp' = "generatePoliteVersion"
  /\ UNCHANGED <<engineVars, feedbackVars, input, converterVars>>

GenerateVariations ==
  /\ lastOp = "init"
  /\ output' = [variations |-> sentenceVariations(input.text, input.context, input.level)]
  /\ lastOp' = "generateVariations"
  /\ UNCHANGED <<engineVars, feedbackVars, input, converterVars>>

NextSentence == GeneratePoliteVersion \/ GenerateVariations

SpecSentence == InitSentence /\ [][NextSentence]_vars

\* C15 as stated: generateVariations returns seven candidates for every input,
\* context and base level.
C15_SevenCandidates ==
  lastOp = "generateVariations" => Len(output.variations) = 7

\* C15, amended: generateVariations returns six candidates for every input, context
\* and base level: one per level 2, 3, 4 and 5, in that order, then the business
\* variant and the friendly variant, both at the base level.
C15_SixCandidates ==
  lastOp = "generateVariations" =>
    LET variations == output.variations
    IN  /\ Len(variations) = 6
        /\ \A i \in 1..4 : variations[i].level = i + 1 /\ variations[i].style = "level"
        /\ variations[5].level = input.level /\ variations[5].style = "business"
        /\ variations[6].level = input.level /\ variations[6].style = "friendly"
        /\ \A i \in 1..6 : variations[i].texts # {}

\* the variations of a text at base level 5 have been generated
C15_Witness ==
  /\ lastOp = "generateVariations"
  /\ input.level = 5
  /\ input.text # <<>>
  /\ Len(output.variations) = 6
  /\ output.variations[5].level = 5

C16_WitnessPlain ==
  /\ lastOp = "generatePoliteVersion"
  /\ input.level = 2
  /\ input.text # <<>>
  /\ ~Contains(output.text, <<"sp">>)

\* C17: for the same input and context the set of outputs possible at level 5
\* differs from the set possible at level 4 (a richer emoji set, stronger keigo).
C17_LevelFiveDiffers ==
  lastOp = "generateVariations" =>
    /\ output.variations[3].level = 4
    /\ output.variations[4].level = 5
    /\ output.variations[4].texts # output.variations[3].texts

(***************************************************************************)
(* AITextConverter (src/src/ai/llmProvider.js) and RealTimeConverter       *)
(* (src/src/ai/realTimeConverter.js): conversion by a language model, with *)
(* a cache in front of each of the two.                                    *)
(*                                                                         *)
(* The characters that btoa accepts are those with a code of at most 255;  *)
(* on a string holding any other character, such as a kana or a kanji, it  *)
(* throws InvalidCharacterError.                                           *)
(***************************************************************************)
Latin1 ==
  {"0", "1", "2", "3", "4", "5", "6", "7", "8", "9", "bang", "colon", "comma",
   "dquote", "latin_A", "latin_B", "latin_C", "latin_D", "latin_E", "latin_F",
   "latin_G", "latin_H", "latin_I", "latin_J", "latin_K", "latin_L", "latin_M",
   "latin_N", "latin_O", "latin_P", "latin_Q", "latin_R", "latin_S", "latin_T",
   "latin_U", "latin_V", "latin_W", "latin_X", "latin_Y", "latin_Z", "latin_small_a",
   "latin_small_b", "latin_small_c", "latin_small_d", "latin_small_e", "latin_small_f",
   "latin_small_g", "latin_small_h", "latin_small_i", "latin_small_j", "latin_small_k",
   "latin_small_l", "latin_small_m", "latin_small_n", "latin_small_o", "latin_small_p",
   "latin_small_q", "latin_small_r", "latin_small_s", "latin_small_t", "latin_small_u",
   "latin_small_v", "latin_small_w", "latin_small_x", "latin_small_y", "latin_small_z",
   "lbrace", "question", "rbrace", "sp"}

InLatin1(string) == \A i \in DOMAIN string : string[i] \in Latin1

\* btoa(string): base64 writes every three bytes as four characters, so the result is
\* given here group by group, each group of (at most) three bytes standing for the four
\* characters that encode it
btoa(string) ==
  [i \in 1..((Len(string) + 2) \div 3) |-> SubSeq(string, 3 * i - 2, Min(3 * i, Len(string)))]

\* .substring(0, 16): the first sixteen characters are the first four groups
IdLength == 16

substring(groups, length) == SubSeq(groups, 1, Min(length \div 4, Len(groups)))

\* JSON.stringify of an object with the properties level (a number), context and
\* relationship (strings), in this order
stringify(options) ==
  <<"lbrace", "dquote", "latin_small_l", "latin_small_e", "latin_small_v", "latin_small_e",
    "latin_small_l", "dquote", "colon">>
    \o Digits(options.level)
    \o <<"comma", "dquote", "latin_small_c", "latin_small_o", "latin_small_n",
         "latin_small_t", "latin_small_e", "latin_small_x", "latin_small_t", "dquote",
         "colon", "dquote">>
    \o options.context
    \o <<"dquote", "comma", "dquote", "latin_small_r", "latin_small_e", "latin_small_l",
         "latin_small_a", "latin_small_t", "latin_small_i", "latin_small_o",
         "latin_small_n", "latin_small_s", "latin_small_h", "latin_small_i",
         "latin_small_p", "dquote", "colon", "dquote">>
    \o options.relationship
    \o <<"dquote", "rbrace">>

\* AITextConverter.generateConversionId and RealTimeConverter.generateCacheKey: the
\* requests of this model carry exactly the three properties, so that both stringify the
\* same object
generateConversionId(text, options) ==
  LET string == text \o stringify(options)
  IN  [threw |-> ~InLatin1(string), value |-> substring(btoa(string), IdLength)]

generateCacheKey(text, options) ==
  LET optionsHash == stringify([level |-> options.level, context |-> options.context,
                                relationship |-> options.relationship])
  IN  [threw |-> ~InLatin1(text \o optionsHash),
       value |-> substring(btoa(text \o optionsHash), IdLength)]

(***************************************************************************)
(* A Map is the sequence of its entries in insertion order: set on a key   *)
(* that is present replaces the value where the entry stands, set on a new *)
(* key appends.                                                            *)
(***************************************************************************)
MapFind(map, key) ==
  LET hits == {i \in DOMAIN map : map[i].key = key}
  IN  IF hits = {} THEN 0 ELSE CHOOSE i \in hits : TRUE

MapDelete(map, key) ==
  LET i == MapFind(map, key)
  IN  IF i = 0 THEN map ELSE SubSeq(map, 1, i - 1) \o SubSeq(map, i + 1, Len(map))

MapSet(map, key, value) ==
  LET i == MapFind(map, key)
  IN  IF i = 0 THEN Append(map, [key |-> key, value |-> value])
      ELSE [map EXCEPT ![i].value = value]

cacheMaxSize == 1000

cacheMaxAge == 30 * 60 * 1000

maxCacheSize == 500

cacheTimeout == 5 * 60 * 1000

maxConcurrentRequests == 3

\* getCachedResult of both classes, on the class's Map and with the class's maximal age:
\* the Map after the lookup and what the lookup returned
getCachedResult(map, key, maxAge, now) ==
  LET i == MapFind(map, key)
  IN  IF i = 0 THEN [map |-> map, result |-> NoConversion]
      ELSE IF now - map[i].value.timestamp > maxAge
           THEN [map |-> MapDelete(map, key), result |-> NoConversion]
           ELSE [map |-> map, result |-> map[i].value.result]

cacheResultNewest(map, key, result, maxSize, now) ==
  MapSet(IF Len(map) >= maxSize THEN MapDelete(map, map[Len(map)].key) ELSE map,
         key, [result |-> result, timestamp |-> now])

\* cacheResult of both classes: the first key of the Map goes when the Map is full
cacheResult(map, key, result, maxSize, now) ==
  LET oldestKey == map[1].key
  IN  MapSet(IF Len(map) >= maxSize THEN MapDelete(map, oldestKey) ELSE map,
             key, [result |-> result, timestamp |-> now])

\* what a lookup leaves in the log of the step: the cache, the key, whether an entry
\* stood under the key, the age of that entry, whether the lookup returned it and
\* whether the key is gone from the Map afterwards
Lookup(name, map, key, found, now) ==
  LET i == MapFind(map, key)
  IN  [cache |-> name, op |-> "get", key |-> key, present |-> i # 0,
       age |-> IF i = 0 THEN 0 ELSE now - map[i].value.timestamp,
       returned |-> found.result # NoConversion,
       removed |-> MapFind(found.map, key) = 0]

\* what an insertion leaves in the log: whether the Map was full, its first key, and
\* the keys that stood in the Map before and do not stand in it afterwards
Insertion(name, map, key, after, maxSize) ==
  [cache |-> name, op |-> "set", key |-> key, full |-> Len(map) >= maxSize,
   oldest |-> IF map = <<>> THEN <<>> ELSE map[1].key,
   dropped |-> {map[i].key : i \in DOMAIN map} \ {after[j].key : j \in DOMAIN after}]

(***************************************************************************)
(* LLMProvider.  detectBestProvider takes the first provider of the        *)
(* fallback order that is available, and LocalLLMProvider.isAvailable      *)
(* returns a promise, which counts as true: there is always an active      *)
(* provider.  recordError is only called for the other providers, so the   *)
(* active one is never rate limited and generate always asks it: its       *)
(* answer is the response, its failure leads to fallbackResponse, and      *)
(* while it is silent generate waits, the fetch carrying no timeout.       *)
(* Numbers between 0 and 1 are in thousandths, products rounded down.      *)
(***************************************************************************)
fallbackOrder == <<"anthropic", "openai", "gemini", "local">>

\* no API key is stored: the local provider is the first that is available
detectBestProvider == fallbackOrder[Len(fallbackOrder)]

complete(provider) ==
  [provider |-> provider,
   confidence |-> CASE provider = "anthropic" -> 900
                    [] provider = "openai" -> 850
                    [] provider = "gemini" -> 800
                    [] provider = "local" -> 750]

fallbackResponse == [provider |-> "fallback", confidence |-> 300]

providerReliability(provider) ==
  CASE provider = "anthropic" -> 950
    [] provider = "openai" -> 900
    [] provider = "gemini" -> 850
    [] provider = "local" -> 750
    [] provider = "fallback" -> 300
    [] OTHER -> 800

calculateConfidence(llmResponse, qualityScore, validation) ==
  LET byQuality == (llmResponse.confidence * qualityScore.overall) \div 1000
      byValidation == IF validation.isValid THEN byQuality ELSE (byQuality * 800) \div 1000
      confidence == (byValidation * providerReliability(llmResponse.provider)) \div 1000
  IN  Min(1000, Max(100, confidence))

\* postProcessResult: the quality score and the validation of the converted text are
\* taken from the call, where the request put them
postProcessResult(call, llmResponse, now) ==
  [original |-> call.text, options |-> call.options, provider |-> llmResponse.provider,
   confidence |-> calculateConfidence(llmResponse, [overall |-> call.overall],
                                      [isValid |-> call.isValid]),
   engine |-> "ai-v3.0", cached |-> FALSE, timestamp |-> now]

(***************************************************************************)
(* The two converters as one record, for the operators below, which give   *)
(* the state after a piece of code has run.                                *)
(***************************************************************************)
Converters ==
  [convertCalls |-> convertCalls, streams |-> streams, rateLimitQueue |-> rateLimitQueue,
   currentRequests |-> currentRequests, timers |-> timers, cache |-> cache,
   realtimeCache |-> realtimeCache, isConverting |-> isConverting,
   conversionQueue |-> conversionQueue, delivered |-> delivered, cacheLog |-> <<>>,
   conversionLog |-> <<>>]

Becomes(after) ==
  \E st \in {after} :
    /\ convertCalls' = st.convertCalls
    /\ streams' = st.streams
    /\ rateLimitQueue' = st.rateLimitQueue
    /\ currentRequests' = st.currentRequests
    /\ timers' = st.timers
    /\ cache' = st.cache
    /\ realtimeCache' = st.realtimeCache
    /\ isConverting' = st.isConverting
    /\ conversionQueue' = st.conversionQueue
    /\ delivered' = st.delivered
    /\ cacheLog' = st.cacheLog
    /\ conversionLog' = st.conversionLog

\* the state st, computed once, and then the code that runs on it
Then(st, code(_)) == CHOOSE after \in {code(s) : s \in {st}} : TRUE

\* a convertText call that has just begun
NewCall(request, caller, cacheKey, now) ==
  [text |-> request.text, options |-> request.options, caller |-> caller,
   cacheKey |-> cacheKey, backend |-> request.backend, overall |-> request.overall,
   isValid |-> request.isValid, startTime |-> now, state |-> "called",
   result |-> NoConversion]

Report(kind, request, fromCache, result) ==
  [kind |-> kind, text |-> request.text, options |-> request.options,
   fromCache |-> fromCache, result |-> result]

\* AITextConverter.processQueue without the test of currentRequests
AIProcessQueueUnlimited(st) ==
  IF st.rateLimitQueue = <<>> THEN st
  ELSE [st EXCEPT !.currentRequests = @ + 1,
                  !.rateLimitQueue = Tail(@),
                  !.convertCalls[Head(st.rateLimitQueue)].state = "waiting"]

\* AITextConverter.processQueue as far as its await: the call at the head of the queue
\* takes a slot and LLMProvider.generate posts its prompt to the active provider
AIProcessQueue(st) ==
  IF st.currentRequests >= maxConcurrentRequests \/ st.rateLimitQueue = <<>> THEN st
  ELSE [st EXCEPT !.currentRequests = @ + 1,
                  !.rateLimitQueue = Tail(@),
                  !.convertCalls[Head(st.rateLimitQueue)].state = "waiting"]

RECURSIVE executeConversion(_, _, _)
RECURSIVE RealTimeProcessQueue(_, _)
RECURSIVE convertText(_, _, _)
RECURSIVE Settle(_, _, _, _, _)

\* The promise of convertText call c settles and the code awaiting it goes on: a
\* client receives the result; executeConversion caches it, reports it and, in its
\* finally block, takes up the queue; startStreamingConversion caches and reports it,
\* and nobody handles its rejection.
Settle(st, c, state, result, now) ==
  LET call == st.convertCalls[c]
      settled == [st EXCEPT !.convertCalls[c].state = state,
                            !.convertCalls[c].result = result]
      after == cacheResult(st.realtimeCache, call.cacheKey, [result EXCEPT !.cached = TRUE],
                           maxCacheSize, now)
      kept == [settled EXCEPT
                 !.realtimeCache = after,
                 !.cacheLog = Append(@, Insertion("realtimeCache", st.realtimeCache,
                                                  call.cacheKey, after, maxCacheSize)),
                 !.delivered = Report("onSuccess", call, FALSE, result)]
      failed == [settled EXCEPT !.delivered = Report("onError", call, FALSE, NoConversion)]
  IN  CASE call.caller = "client" ->
             [settled EXCEPT !.delivered = Report(state, call, result.cached, result)]
        [] call.caller = "executeConversion" /\ state = "returned" ->
             Then([kept EXCEPT !.isConverting = FALSE],
                  LAMBDA s : RealTimeProcessQueue(s, now))
        [] call.caller = "executeConversion" /\ state = "rejected" ->
             Then([failed EXCEPT !.isConverting = FALSE],
                  LAMBDA s : RealTimeProcessQueue(s, now))
        [] call.caller = "startStreamingConversion" /\ state = "returned" -> kept
        [] OTHER -> settled

\* AITextConverter.convertText as far as its await
convertText(st, c, now) ==
  LET call == st.convertCalls[c]
      conversionId == generateConversionId(call.text, call.options)
      found == getCachedResult(st.cache, conversionId.value, cacheMaxAge, now)
      looked == [st EXCEPT !.cache = found.map,
                           !.cacheLog = Append(@, Lookup("cache", st.cache,
                                                        conversionId.value, found, now))]
  IN  IF conversionId.threw THEN Settle(st, c, "rejected", NoConversion, now)
      ELSE IF found.result # NoConversion
           THEN Then(looked, LAMBDA s : Settle(s, c, "returned",
                                               [found.result EXCEPT !.cached = TRUE], now))
           ELSE Then([looked EXCEPT !.rateLimitQueue = Append(@, c),
                                    !.convertCalls[c].state = "queued"],
                     LAMBDA s : AIProcessQueue(s))

\* RealTimeConverter.executeConversion as far as its await
executeConversion(st, request, now) ==
  LET cacheKey == generateCacheKey(request.text, request.options)
      found == getCachedResult(st.realtimeCache, cacheKey.value, cacheTimeout, now)
      entered == [st EXCEPT !.conversionLog =
                               Append(@, [op |-> "executeConversion", request |-> request,
                                          queued |-> st.isConverting])]
      begun == [entered EXCEPT !.isConverting = TRUE]
      looked == [begun EXCEPT !.realtimeCache = found.map,
                              !.cacheLog = Append(@, Lookup("realtimeCache", st.realtimeCache,
                                                           cacheKey.value, found, now))]
      finally(after) == Then([after EXCEPT !.isConverting = FALSE],
                             LAMBDA s : RealTimeProcessQueue(s, now))
      call == NewCall(request, "executeConversion", cacheKey.value, now)
  IN  IF st.isConverting THEN [entered EXCEPT !.conversionQueue = Append(@, request)]
      ELSE IF cacheKey.threw
           THEN finally([begun EXCEPT
                           !.delivered = Report("onError", request, FALSE, NoConversion)])
      ELSE IF found.result # NoConversion
           THEN finally([looked EXCEPT
                           !.delivered = Report("onSuccess", request, TRUE, found.result)])
      ELSE IF request.onStream THEN finally([looked EXCEPT !.streams = Append(@, request)])
      ELSE Then([looked EXCEPT !.convertCalls = Append(@, call)],
                LAMBDA s : convertText(s, Len(s.convertCalls), now))

\* processQueue taking the request that has waited longest
RealTimeProcessQueueOldest(st, now) ==
  LET entered == [st EXCEPT !.conversionLog =
                              Append(@, [op |-> "processQueue",
                                         conversionQueue |-> st.conversionQueue])]
  IN  IF st.conversionQueue = <<>> THEN entered
      ELSE Then([entered EXCEPT !.conversionQueue = <<>>],
                LAMBDA s : executeConversion(s, Head(st.conversionQueue), now))

\* RealTimeConverter.processQueue: the latest queued request runs, the others are dropped
RealTimeProcessQueue(st, now) ==
  LET entered == [st EXCEPT !.conversionLog =
                              Append(@, [op |-> "processQueue",
                                         conversionQueue |-> st.conversionQueue])]
  IN  IF st.conversionQueue = <<>> THEN entered
      ELSE Then([entered EXCEPT !.conversionQueue = <<>>],
                LAMBDA s : executeConversion(s, st.conversionQueue[Len(st.conversionQueue)],
                                             now))

\* The provider has settled the fetch of call c: processQueue resolves the promise with
\* the response, gives the slot back and sets the timer; convertText post-processes the
\* response, caches the result and returns it.
Completed(c, llmResponse, now) ==
  LET call == convertCalls[c]
      released == [Converters EXCEPT !.currentRequests = @ - 1, !.timers = @ + 1]
      processedResult == postProcessResult(call, llmResponse, now)
      conversionId == generateConversionId(call.text, call.options).value
      after == cacheResult(cache, conversionId, processedResult, cacheMaxSize, now)
      kept == [released EXCEPT
                 !.cache = after,
                 !.cacheLog = Append(@, Insertion("cache", cache, conversionId, after,
                                                  cacheMaxSize))]
  IN  Then(kept, LAMBDA s : Settle(s, c, "returned", processedResult, now))

(***************************************************************************)
(* The requests.  A client calls RealTimeConverter.executeConversion, with *)
(* or without an onStream callback, or AITextConverter.convertText.  With  *)
(* the request comes what its surroundings will do: the time the client    *)
(* lets pass before it, whether the client waits until the converters are  *)
(* idle, what the provider does with the prompt, and the quality score and *)
(* validation that the post-processing will compute.                       *)
(***************************************************************************)
Business ==
  <<"latin_small_b", "latin_small_u", "latin_small_s", "latin_small_i", "latin_small_n",
    "latin_small_e", "latin_small_s", "latin_small_s">>

Superior ==
  <<"latin_small_s", "latin_small_u", "latin_small_p", "latin_small_e", "latin_small_r",
    "latin_small_i", "latin_small_o", "latin_small_r">>

ConversionOptions(level) ==
  [level |-> level, context |-> Business, relationship |-> Superior]

Request(entry, onStream, text, level, backend, overall, pause) ==
  [entry |-> entry, onStream |-> onStream, text |-> text,
   options |-> ConversionOptions(level),
   backend |-> backend, overall |-> overall, isValid |-> TRUE, pause |-> pause,
   waits |-> FALSE]

PleaseCheck ==
  <<"latin_P", "latin_small_l", "latin_small_e", "latin_small_a", "latin_small_s",
    "latin_small_e", "sp", "latin_small_c", "latin_small_h", "latin_small_e",
    "latin_small_c", "latin_small_k", "sp", "latin_small_i", "latin_small_t">>

Kakunin == <<"kaku", "nin", "shi", "te">>

Okay == <<"latin_O", "latin_K">>

\* the timeout that convertText hands to generateWithRateLimit
timeout == 15000

ConverterRequests ==
  {Request("convertText", FALSE, PleaseCheck, 1, "answers", 900, 0),
   Request("convertText", FALSE, PleaseCheck, 5, "silent", 900, timeout + 1),
   Request("convertText", FALSE, Kakunin, 3, "answers", 900, 0),
   Request("executeConversion", FALSE, PleaseCheck, 5, "answers", 900, 0),
   Request("executeConversion", TRUE, Okay, 3, "fails", 1000, 0)}

\* the requests that fill the caches: one text after the other, each of them new, by
\* a client that waits for the answer
FillPause == 100

FillRequest(n) ==
  [Request("executeConversion", FALSE, Digits(n), 3, "answers", 900, FillPause)
     EXCEPT !.waits = TRUE]

\* the requests that follow those: an early text and the latest text again, once the
\* maximal age of a cache has or has not passed, and a text not seen before
CacheRequests(fill) ==
  {Request("executeConversion", FALSE, Digits(1), 3, "answers", 900, 0),
   Request("executeConversion", FALSE, Digits(fill), 3, "answers", 900, cacheTimeout),
   Request("executeConversion", FALSE, Digits(fill), 3, "answers", 900, cacheTimeout + 1),
   Request("convertText", FALSE, Digits(fill), 3, "answers", 900, cacheMaxAge + 1),
   Request("executeConversion", TRUE, Digits(fill + 1), 3, "fails", 900, 0)}

\* convertText calls that come close together; the provider answers the odd ones and
\* fails the even ones
LimiterRequest(n) ==
  IF n % 2 = 1 THEN Request("convertText", FALSE, PleaseCheck, 1, "answers", 900, 1)
  ELSE Request("convertText", FALSE, Okay, 3, "fails", 900, 1)

Requests(n) ==
  IF n <= traffic.fill THEN {FillRequest(n)}
  ELSE IF traffic.limiter THEN {LimiterRequest(n)}
  ELSE IF traffic.fill = 0 THEN ConverterRequests
  ELSE CacheRequests(traffic.fill)

Idle ==
  /\ currentRequests = 0
  /\ rateLimitQueue = <<>>
  /\ timers = 0
  /\ streams = <<>>
  /\ ~isConverting

otherVars == <<traffic, engineVars, componentVars, script, feedbackData, learningPatterns,
               learnerPreferences, localStorage, submitted, feedbackLog>>

(***************************************************************************)
(* The steps.                                                              *)
(***************************************************************************)
\* a client calls RealTimeConverter.executeConversion
ExecuteConversion ==
  /\ issued < traffic.fill + traffic.more
  /\ \E request \in Requests(issued + 1) :
       /\ request.entry = "executeConversion"
       /\ request.waits => Idle
       /\ clock' = clock + request.pause
       /\ Becomes(Then(Converters, LAMBDA s : executeConversion(s, request, clock')))
  /\ issued' = issued + 1
  /\ lastOp' = "executeConversion"
  /\ UNCHANGED otherVars

\* a client calls AITextConverter.convertText
ConvertText ==
  /\ issued < traffic.fill + traffic.more
  /\ \E request \in Requests(issued + 1) :
       /\ request.entry = "convertText"
       /\ request.waits => Idle
       /\ clock' = clock + request.pause
       /\ LET call == NewCall(request, "client", <<>>, clock')
          IN  Becomes(Then([Converters EXCEPT !.convertCalls = Append(@, call)],
                           LAMBDA s : convertText(s, Len(s.convertCalls), clock')))
  /\ issued' = issued + 1
  /\ lastOp' = "convertText"
  /\ UNCHANGED otherVars

\* startStreamingConversion has shown its stages and calls convertText
StreamingConverts ==
  /\ streams # <<>>
  /\ LET request == Head(streams)
         cacheKey == generateCacheKey(request.text, request.options)
         call == NewCall(request, "startStreamingConversion", cacheKey.value, clock)
     IN  Becomes(Then([Converters EXCEPT !.streams = Tail(@),
                                         !.convertCalls = Append(@, call)],
                      LAMBDA s : convertText(s, Len(s.convertCalls), clock)))
  /\ lastOp' = "startStreamingConversion"
  /\ UNCHANGED <<otherVars, issued, clock>>

\* the active provider answers the prompt of call c
ProviderAnswers(c) ==
  /\ c \in DOMAIN convertCalls
  /\ convertCalls[c].state = "waiting"
  /\ convertCalls[c].backend = "answers"
  /\ Becomes(Completed(c, complete(traffic.activeProvider), clock))
  /\ lastOp' = "complete"
  /\ UNCHANGED <<otherVars, issued, clock>>

\* the active provider fails on the prompt of call c: generate catches the error and
\* returns fallbackResponse
ProviderFails(c) ==
  /\ c \in DOMAIN convertCalls
  /\ convertCalls[c].state = "waiting"
  /\ convertCalls[c].backend = "fails"
  /\ Becomes(Completed(c, fallbackResponse, clock))
  /\ lastOp' = "fallbackResponse"
  /\ UNCHANGED <<otherVars, issued, clock>>

\* a timer set by AITextConverter.processQueue fires
TimerFires ==
  /\ timers > 0
  /\ Becomes(Then([Converters EXCEPT !.timers = @ - 1], LAMBDA s : AIProcessQueue(s)))
  /\ lastOp' = "processQueue"
  /\ UNCHANGED <<otherVars, issued, clock>>

MaxRequests == 4

FillRequests == 1001

TailRequests == 2

InitTraffic(fill, more) ==
  /\ InitEngine
  /\ workload = <<>>
  /\ script = <<>>
  /\ InitFeedback
  /\ input = <<>>
  /\ output = <<>>
  /\ InitConverters
  /\ traffic = [fill |-> fill, more |-> more, activeProvider |-> detectBestProvider,
                limiter |-> FALSE]
  /\ lastOp = "init"

NextConverters ==
  \/ ExecuteConversion
  \/ ConvertText
  \/ StreamingConverts
  \/ \E c \in DOMAIN convertCalls : ProviderAnswers(c)
  \/ \E c \in DOMAIN convertCalls : ProviderFails(c)
  \/ TimerFires

\* a few requests that may overlap
InitConverterTraffic == InitTraffic(0, MaxRequests)

SpecConverters == InitConverterTraffic /\ [][NextConverters]_vars

\* the event loop goes on as long as a callback is ready: a timer that is due, a
\* fetch that the provider settles; nothing makes a client call
EventLoop ==
  \/ StreamingConverts
  \/ TimerFires
  \/ \E c \in DOMAIN convertCalls : ProviderAnswers(c) \/ ProviderFails(c)

SpecConvertersLive == SpecConverters /\ WF_vars(EventLoop)

(***************************************************************************)
(* More distinct texts than either cache holds, one after the other, and   *)
(* then a few more requests.  Filled(n) is the state in which the n-th of  *)
(* the filling requests has been served and its timer has fired; it is     *)
(* reached from the constructed converters by those n requests, which      *)
(* FilledIsReached states for SpecCacheFill.  SpecCaches starts there.     *)
(***************************************************************************)
Prefilled == 999

FillResult(n) ==
  postProcessResult(FillRequest(n), complete(detectBestProvider), n * FillPause)

FillKey(n) == generateCacheKey(Digits(n), ConversionOptions(3)).value

FillCall(n) ==
  [NewCall(FillRequest(n), "executeConversion", FillKey(n), n * FillPause)
     EXCEPT !.state = "returned", !.result = FillResult(n)]

FillEntry(n, cached) ==
  [key |-> FillKey(n),
   value |-> [result |-> [FillResult(n) EXCEPT !.cached = cached],
              timestamp |-> n * FillPause]]

Filled(n) ==
  /\ issued = n
  /\ convertCalls = [i \in 1..n |-> FillCall(i)]
  /\ streams = <<>>
  /\ rateLimitQueue = <<>>
  /\ currentRequests = 0
  /\ timers = 0
  /\ cache = [i \in 1..Min(n, cacheMaxSize) |->
                FillEntry(Max(n - cacheMaxSize, 0) + i, FALSE)]
  /\ realtimeCache = [i \in 1..Min(n, maxCacheSize) |->
                        FillEntry(Max(n - maxCacheSize, 0) + i, TRUE)]
  /\ isConverting = FALSE
  /\ conversionQueue = <<>>
  /\ delivered = Report("onSuccess", FillRequest(n), FALSE, FillResult(n))
  /\ cacheLog = <<>>
  /\ conversionLog = <<>>
  /\ clock = n * FillPause
  /\ lastOp = "processQueue"

InitCacheFill == InitTraffic(Prefilled, 0)

SpecCacheFill == InitCacheFill /\ [][NextConverters]_vars

FilledIsReached ==
  (issued = Prefilled /\ Idle /\ lastOp = "processQueue") => Filled(Prefilled)

InitCacheTraffic ==
  /\ InitEngine
  /\ workload = <<>>
  /\ script = <<>>
  /\ feedbackData = <<>>
  /\ learningPatterns = <<>>
  /\ learnerPreferences = <<>>
  /\ localStorage = <<>>
  /\ submitted = 0
  /\ feedbackLog = <<>>
  /\ input = <<>>
  /\ output = <<>>
  /\ traffic = [fill |-> FillRequests, more |-> TailRequests,
                activeProvider |-> detectBestProvider, limiter |-> FALSE]
  /\ Filled(Prefilled)

SpecCaches == InitCacheTraffic /\ [][NextConverters]_vars

\* C18: every call of AITextConverter.convertText eventually returns a result: time
\* and again all the calls made so far have returned, none is left waiting for the
\* provider
C18_AlwaysReturns ==
  []<>(\A c \in DOMAIN convertCalls : convertCalls[c].state = "returned")

\* a call whose provider failed returns the rule-based fallback result, with provider
\* 'fallback' and confidence 0.3
C18_FallbackResult ==
  \A c \in DOMAIN convertCalls :
    (/\ convertCalls[c].state = "returned"
     /\ convertCalls[c].backend # "answers"
     /\ ~convertCalls[c].result.cached)
      => /\ convertCalls[c].result.provider = "fallback"
         /\ convertCalls[c].result.confidence = 300

\* a call is still waiting for the provider after more than the timeout has passed
C18_WaitsBeyondTimeout ==
  \E c \in DOMAIN convertCalls :
    /\ convertCalls[c].state = "waiting"
    /\ clock - convertCalls[c].startTime > timeout

\* a call on a Japanese text has been rejected
C18_Rejected ==
  \E c \in DOMAIN convertCalls : convertCalls[c].state = "rejected"

\* a call whose provider failed has returned with a confidence other than 0.3
C18_FallbackConfidence ==
  \E c \in DOMAIN convertCalls :
    /\ convertCalls[c].state = "returned"
    /\ convertCalls[c].backend = "fails"
    /\ convertCalls[c].result.provider = "fallback"
    /\ convertCalls[c].result.confidence = 100

\* every call is waited for no longer than the timeout
C18_NeverWaitsLonger == [](~C18_WaitsBeyondTimeout)

\* C19: a result that a client receives from a cache was made for the text and the
\* options of its request, and two calls that differ in text or options have
\* different cache keys
C19_PureMemoization ==
  /\ (delivered.kind \in {"onSuccess", "returned"} /\ delivered.fromCache)
       => /\ delivered.result.original = delivered.text
          /\ delivered.result.options = delivered.options
  /\ \A c, d \in DOMAIN convertCalls :
       (convertCalls[c].text # convertCalls[d].text
        \/ convertCalls[c].options # convertCalls[d].options)
         => generateConversionId(convertCalls[c].text, convertCalls[c].options)
              # generateConversionId(convertCalls[d].text, convertCalls[d].options)

\* a client has received from a cache a result made for other options than its own
C19_ForeignResult ==
  /\ delivered.kind \in {"onSuccess", "returned"}
  /\ delivered.fromCache
  /\ delivered.result.original = delivered.text
  /\ delivered.result.options # delivered.options

MaxAge(name) == IF name = "cache" THEN cacheMaxAge ELSE cacheTimeout

\* C20: realtimeCache never holds more than 500 entries and AITextConverter.cache never
\* more than 1000; an insertion into a full cache drops the entry that was inserted
\* first and no other, an insertion into a cache that is not full drops none; a lookup
\* returns no entry older than the maximal age of its cache, and after the lookup such
\* an entry is gone from the cache
C20_BoundedAndFresh ==
  /\ Len(realtimeCache) <= maxCacheSize
  /\ Len(cache) <= cacheMaxSize
  /\ \A i \in DOMAIN cacheLog :
       LET done == cacheLog[i]
       IN  /\ done.op = "get" =>
                /\ done.returned => (done.present /\ done.age <= MaxAge(done.cache))
                /\ (done.present /\ done.age > MaxAge(done.cache)) =>
                     (~done.returned /\ done.removed)
           /\ done.op = "set" =>
                IF done.full /\ done.key # done.oldest
                THEN done.dropped = {done.oldest}
                ELSE done.dropped = {}

\* both caches are full, the first text has been dropped from both, and the step has
\* looked up, in realtimeCache, an entry older than five minutes and has removed it
C20_Witness ==
  /\ Len(realtimeCache) = maxCacheSize
  /\ Len(cache) = cacheMaxSize
  /\ MapFind(cache, generateConversionId(Digits(1), ConversionOptions(3)).value) = 0
  /\ MapFind(realtimeCache, generateCacheKey(Digits(1), ConversionOptions(3)).value) = 0
  /\ \E i \in DOMAIN cacheLog :
       /\ cacheLog[i].op = "get"
       /\ cacheLog[i].cache = "realtimeCache"
       /\ cacheLog[i].present
       /\ cacheLog[i].age > cacheTimeout
       /\ cacheLog[i].removed

(***************************************************************************)
(* QualityAssessment (src/ai/qualityAssessment.js).  Scores are counted in *)
(* millionths (0.8 is 800000) and the factors and weights in hundredths    *)
(* (0.25 is 25), so that every product of the code is an exact integer.    *)
(* An evaluator is given what it reads off the two texts: which of its     *)
(* patterns match, and the counts it takes.                                *)
(***************************************************************************)
Score(hundredths) == hundredths * 10000

\* score * factor, for a factor in hundredths
Times(score, factor) == (score * factor) \div 100

Clamp01(score) == Max(0, Min(Score(100), score))

\* Object.entries(this.metrics), in insertion order
metrics == <<"naturalness", "intentPreservation", "appropriateness", "completeness">>

\* this.weights, in hundredths
weights == [naturalness |-> 30, intentPreservation |-> 30, appropriateness |-> 25,
            completeness |-> 15]

\* NaturalnessEvaluator.assessSentenceFlow: abrupt is the number of neighbouring
\* sentences, both non-empty, the second of which starts with no connecting word
assessSentenceFlow(abrupt) == Max(0, Score(80) - abrupt * Score(10))

\* NaturalnessEvaluator.assessParticleUsage; 0 / 0 is NaN and fails every comparison
assessParticleUsage(particles, totalChars) ==
  IF totalChars = 0 THEN Score(50)
  ELSE IF particles * 100 >= 5 * totalChars /\ particles * 100 <= 15 * totalChars
       THEN Score(90)
       ELSE IF particles * 100 >= 3 * totalChars /\ particles * 100 <= 20 * totalChars
            THEN Score(70)
            ELSE Score(50)

\* NaturalnessEvaluator.evaluate
NaturalnessEvaluator(f) ==
  LET penalised == Score(80) - f.unnatural * Score(20)
      rewarded == penalised + f.natural * Score(5)
      flowScore == assessSentenceFlow(f.abrupt)
      flowing == Times(rewarded, 70) + Times(flowScore, 30)
      particleScore == assessParticleUsage(f.particles, f.totalChars)
      score == Times(flowing, 90) + Times(particleScore, 10)
  IN  Clamp01(score)

\* IntentPreservationEvaluator.assessKeywordPreservation
assessKeywordPreservation(originalWords, preserved) ==
  IF originalWords = 0 THEN Score(80) ELSE (preserved * Score(100)) \div originalWords

\* IntentPreservationEvaluator.assessEmotionalToneMatch
assessEmotionalToneMatch(originalTone, convertedTone) ==
  LET compatibleTones == [urgent |-> {"serious", "formal"},
                          casual |-> {"friendly", "neutral"},
                          angry |-> {"serious", "formal"}]
  IN  IF originalTone = convertedTone THEN Score(100)
      ELSE IF originalTone \in DOMAIN compatibleTones
              /\ convertedTone \in compatibleTones[originalTone]
           THEN Score(80)
           ELSE Score(50)

\* IntentPreservationEvaluator.evaluate
IntentPreservationEvaluator(f) ==
  LET byIntent == IF f.originalIntent = f.convertedIntent
                  THEN Score(80) + Score(10) ELSE Score(80) - Score(30)
      keywordPreservation == assessKeywordPreservation(f.words, f.preserved)
      byKeywords == Times(byIntent, 70) + Times(keywordPreservation, 30)
      emotionalToneMatch == assessEmotionalToneMatch(f.originalTone, f.convertedTone)
      score == Times(byKeywords, 80) + Times(emotionalToneMatch, 20)
  IN  Clamp01(score)

\* AppropriatenessEvaluator.assessPolitenessLevel
assessPolitenessLevel(actualLevel, expectedLevel) ==
  LET levelDiff == Abs(actualLevel - expectedLevel)
  IN  IF levelDiff = 0 THEN Score(100)
      ELSE IF levelDiff = 1 THEN Score(80)
      ELSE IF levelDiff = 2 THEN Score(60)
      ELSE Score(40)

\* AppropriatenessEvaluator.evaluate: options.level || 2; assessContextMatch and
\* assessRelationshipMatch give 1.0 when the indicator of the expected context or
\* relationship matches, and 0.7 and 0.8 otherwise
AppropriatenessEvaluator(f) ==
  LET levelMatch == assessPolitenessLevel(f.actualLevel, f.level)
      byLevel == Times(Score(80), 40) + Times(levelMatch, 60)
      contextMatch == IF f.context THEN Score(100) ELSE Score(70)
      byContext == Times(byLevel, 80) + Times(contextMatch, 20)
      relationshipMatch == IF f.relationship THEN Score(100) ELSE Score(80)
      score == Times(byContext, 80) + Times(relationshipMatch, 20)
  IN  Clamp01(score)

\* CompletenessEvaluator.assessStructurePreservation
assessStructurePreservation(originalSentences, convertedSentences) ==
  LET longest == Max(1, originalSentences)
  IN  IF convertedSentences * 10 >= 8 * longest /\ convertedSentences * 10 <= 15 * longest
      THEN Score(90)
      ELSE IF convertedSentences * 10 >= 5 * longest
              /\ convertedSentences * 10 <= 20 * longest
           THEN Score(70)
           ELSE Score(50)

\* CompletenessEvaluator.assessInformationPreservation
assessInformationPreservation(elements, preserved) ==
  IF elements = 0 THEN Score(90) ELSE (preserved * Score(100)) \div elements

\* CompletenessEvaluator.evaluate: lengthRatio is converted.length / original.length,
\* NaN for two empty texts and Infinity for an empty original alone
CompletenessEvaluator(f) ==
  LET a == f.originalLength
      b == f.convertedLength
      byLength ==
        IF a = 0 /\ b = 0 THEN Score(80)
        ELSE IF a = 0 THEN Score(80) - Score(20)
        ELSE IF b * 10 >= 12 * a /\ b * 10 <= 30 * a THEN Score(80) + Score(10)
        ELSE IF b * 10 < 8 * a \/ b * 10 > 40 * a THEN Score(80) - Score(20)
        ELSE Score(80)
      informationPreservation == assessInformationPreservation(f.elements, f.preserved)
      byInformation == Times(byLength, 60) + Times(informationPreservation, 40)
      structurePreservation ==
        assessStructurePreservation(f.originalSentences, f.convertedSentences)
      score == Times(byInformation, 90) + Times(structurePreservation, 10)
  IN  Clamp01(score)

\* calculateOverallScore with every metric weighted alike
calculateOverallScoreEqualWeights(scores) ==
  (scores[1].score + scores[2].score + scores[3].score + scores[4].score) \div 4

\* QualityAssessment.calculateOverallScore(scores): this.weights[metric] || 0.25
RECURSIVE WeightedSum(_)
WeightedSum(scores) ==
  IF scores = <<>> THEN [weightedSum |-> 0, totalWeight |-> 0]
  ELSE LET before == WeightedSum(SubSeq(scores, 1, Len(scores) - 1))
           entry == scores[Len(scores)]
           weight == IF entry.metric \in DOMAIN weights THEN weights[entry.metric] ELSE 25
       IN  [weightedSum |-> before.weightedSum + entry.score * weight,
            totalWeight |-> before.totalWeight + weight]

calculateOverallScore(scores) ==
  LET sums == WeightedSum(scores)
  IN  IF sums.totalWeight > 0 THEN sums.weightedSum \div sums.totalWeight ELSE Score(50)

\* QualityAssessment.getQualityGrade
getQualityGrade(score) ==
  IF score >= Score(90) THEN "A+"
  ELSE IF score >= Score(80) THEN "A"
  ELSE IF score >= Score(70) THEN "B+"
  ELSE IF score >= Score(60) THEN "B"
  ELSE IF score >= Score(50) THEN "C+"
  ELSE IF score >= Score(40) THEN "C"
  ELSE IF score >= Score(30) THEN "D"
  ELSE "F"

(***************************************************************************)
(* assessConversion(original, converted, options): the loop over the four  *)
(* evaluators, one step for each awaited evaluate, and then the overall    *)
(* score and the report.  What an evaluator reads off the texts is chosen  *)
(* when it runs.                                                           *)
(***************************************************************************)
\* numbers of abrupt transitions: none, one, and enough to bring the flow score to 0
AbruptCounts == {0, 1, 8}

\* numbers of content words or information elements of the original text
WordCounts == {0, 1, 2}

\* text.match(/[particles]/g).length and text.length
ParticleCounts == {<<0, 0>>, <<1, 8>>, <<1, 25>>}

\* of the five unnatural patterns the third and the fifth hold a request form, which
\* is the second natural pattern; the second spans two sentences with no connecting
\* word; an empty text matches nothing
NaturalnessReadings ==
  {f \in [unnatural : {0, 1, 2, 5}, natural : 0..2, abrupt : AbruptCounts,
          particles : {0, 1}, totalChars : {0, 8, 25}] :
     /\ <<f.particles, f.totalChars>> \in ParticleCounts
     /\ f.unnatural >= 4 => f.natural >= 1
     /\ f.unnatural = 5 => f.abrupt >= 1
     /\ f.totalChars = 0 => f.unnatural = 0 /\ f.natural = 0 /\ f.abrupt = 0}

\* detectEmotionalTone finds urgent, angry, happy, sad, casual, formal or neutral
IntentReadings ==
  {f \in [originalIntent : {"request", "general"}, convertedIntent : {"request", "general"},
          words : WordCounts, preserved : WordCounts,
          originalTone : {"casual", "neutral"},
          convertedTone : {"formal", "neutral"}] :
     f.preserved <= f.words}

\* converted = undefined reads as the text 'undefined', in which no pattern matches
AppropriatenessReadings(converted) ==
  {f \in [actualLevel : 1..5, level : {2, 3, 5}, context : BOOLEAN, relationship : BOOLEAN] :
     converted = "undefined" => f.actualLevel = 1 /\ ~f.context /\ ~f.relationship}

LengthPairs == {<<0, 0>>, <<0, 5>>, <<5, 3>>, <<5, 5>>, <<5, 6>>, <<5, 15>>, <<5, 21>>}

SentencePairs == {<<0, 0>>, <<1, 1>>, <<1, 2>>, <<1, 3>>}

CompletenessReadings ==
  {f \in [originalLength : {0, 5}, convertedLength : {0, 3, 5, 6, 15, 21},
          elements : WordCounts, preserved : WordCounts,
          originalSentences : 0..3, convertedSentences : 0..3] :
     /\ <<f.originalLength, f.convertedLength>> \in LengthPairs
     /\ <<f.originalSentences, f.convertedSentences>> \in SentencePairs
     /\ f.preserved <= f.elements
     /\ f.originalLength = 0 => f.elements = 0 /\ f.originalSentences = 0
     /\ f.convertedLength = 0 => f.convertedSentences = 0 /\ f.preserved = 0}

\* the evaluate calls that throw a TypeError: text.split, text.includes and
\* converted.length on undefined, options.level on null
Throws(metric, call) ==
  CASE metric = "naturalness" -> call.converted = "undefined"
    [] metric = "intentPreservation" ->
         call.original = "undefined" \/ call.converted = "undefined"
    [] metric = "appropriateness" -> call.options = "null"
    [] metric = "completeness" ->
         call.original = "undefined" \/ call.converted = "undefined"

\* the scores an evaluator can return on this call
Evaluations(metric, call) ==
  CASE metric = "naturalness" -> {NaturalnessEvaluator(f) : f \in NaturalnessReadings}
    [] metric = "intentPreservation" ->
         {IntentPreservationEvaluator(f) : f \in IntentReadings}
    [] metric = "appropriateness" ->
         {AppropriatenessEvaluator(f) : f \in AppropriatenessReadings(call.converted)}
    [] metric = "completeness" -> {CompletenessEvaluator(f) : f \in CompletenessReadings}

NoAssessment == [scores |-> <<>>, overall |-> -1, grade |-> "none"]

AssessmentCalls ==
  [original : {"string", "undefined"}, converted : {"string", "undefined"},
   options : {"object", "null"}]

InitQuality ==
  /\ InitEngine
  /\ workload = <<>>
  /\ script = <<>>
  /\ InitFeedback
  /\ input \in AssessmentCalls
  /\ output = NoAssessment
  /\ InitConverters
  /\ traffic = NoTraffic
  /\ lastOp = "init"

\* one turn of the loop: try { scores[metricName] = result.score } catch { 0.5 }
Evaluate ==
  /\ Len(output.scores) < Len(metrics)
  /\ LET metric == metrics[Len(output.scores) + 1]
     IN  IF Throws(metric, input)
         THEN output' = [output EXCEPT !.scores =
                           Append(@, [metric |-> metric, score |-> Score(50),
                                      error |-> TRUE])]
         ELSE \E score \in Evaluations(metric, input) :
                output' = [output EXCEPT !.scores =
                             Append(@, [metric |-> metric, score |-> score,
                                        error |-> FALSE])]
  /\ lastOp' = "evaluate"
  /\ UNCHANGED <<engineVars, feedbackVars, input, converterVars>>

\* calculateOverallScore and generateQualityReport
AssessConversion ==
  /\ Len(output.scores) = Len(metrics)
  /\ output.grade = "none"
  /\ LET overall == calculateOverallScore(output.scores)
     IN  output' = [output EXCEPT !.overall = overall, !.grade = getQualityGrade(overall)]
  /\ lastOp' = "assessConversion"
  /\ UNCHANGED <<engineVars, feedbackVars, input, converterVars>>

NextQuality == Evaluate \/ AssessConversion

SpecQuality == InitQuality /\ [][NextQuality]_vars

ScoreOf(metric) ==
  LET i == CHOOSE j \in DOMAIN output.scores : output.scores[j].metric = metric
  IN  output.scores[i].score

Band(score) ==
  CASE score * 10 >= Score(100) * 9 -> "A+"
    [] score * 10 < Score(100) * 9 /\ score * 10 >= Score(100) * 8 -> "A"
    [] score * 10 < Score(100) * 8 /\ score * 10 >= Score(100) * 7 -> "B+"
    [] score * 10 < Score(100) * 7 /\ score * 10 >= Score(100) * 6 -> "B"
    [] score * 10 < Score(100) * 6 /\ score * 10 >= Score(100) * 5 -> "C+"
    [] score * 10 < Score(100) * 5 /\ score * 10 >= Score(100) * 4 -> "C"
    [] score * 10 < Score(100) * 4 /\ score * 10 >= Score(100) * 3 -> "D"
    [] score * 10 < Score(100) * 3 -> "F"

\* C21: when assessConversion has returned, overall is (0.30 naturalness + 0.30
\* intentPreservation + 0.25 appropriateness + 0.15 completeness) / 1.00, it lies in
\* [0, 1], an evaluator that threw has the score 0.5, and the grade of the report is
\* the band of overall (>= 0.9 A+, >= 0.8 A, >= 0.7 B+, >= 0.6 B, >= 0.5 C+, >= 0.4 C,
\* >= 0.3 D, else F).
C21_OverallAndGrade ==
  /\ \A i \in DOMAIN output.scores :
       /\ output.scores[i].score >= 0
       /\ output.scores[i].score <= Score(100)
       /\ output.scores[i].error => output.scores[i].score = Score(50)
  /\ lastOp = "assessConversion" =>
       /\ output.overall * 100 = 30 * ScoreOf("naturalness")
                                 + 30 * ScoreOf("intentPreservation")
                                 + 25 * ScoreOf("appropriateness")
                                 + 15 * ScoreOf("completeness")
       /\ output.overall >= 0
       /\ output.overall <= Score(100)
       /\ output.grade = Band(output.overall)

\* an assessment in which an evaluator threw and the overall score lies exactly on the
\* lower edge of a band
C21_Witness ==
  /\ lastOp = "assessConversion"
  /\ \E i \in DOMAIN output.scores : output.scores[i].error
  /\ \E i \in DOMAIN output.scores : ~output.scores[i].error
  /\ output.overall = Score(70)
  /\ output.grade = "B+"

\* the convertText calls that RealTimeConverter has made and that have not settled
Outstanding ==
  {c \in DOMAIN convertCalls :
     /\ convertCalls[c].caller \in {"executeConversion", "startStreamingConversion"}
     /\ convertCalls[c].state \in {"called", "queued", "waiting"}}

\* C22: RealTimeConverter runs at most one conversion at a time: at most one call of
\* the underlying converter made for executeConversion, directly (standard mode) or
\* by startStreamingConversion (streaming mode), is outstanding.
C22_OneAtATime == Cardinality(Outstanding) <= 1

\* two calls of the underlying converter are outstanding, one of them made by
\* startStreamingConversion, and nothing was queued
C22_StreamingOverlaps ==
  /\ Cardinality(Outstanding) = 2
  /\ \E c \in Outstanding : convertCalls[c].caller = "startStreamingConversion"
  /\ conversionQueue = <<>>

\* C22 for standard mode alone: at most one call made by executeConversion itself is
\* outstanding.
C22_StandardOneAtATime ==
  Cardinality({c \in Outstanding : convertCalls[c].caller = "executeConversion"}) <= 1

\* C23: whenever processQueue runs (a conversion has finished), and requests are
\* queued, the next thing to happen is that executeConversion is called with the
\* request queued last and carries it out (it is not queued again); no other queued
\* request is carried out and the queue is empty afterwards.  When nothing is queued,
\* processQueue calls nothing.  executeConversion is called by a client, as the first
\* thing of a step, or by processQueue.
C23_LatestQueuedRuns ==
  /\ (\E i \in DOMAIN conversionLog : conversionLog[i].op = "processQueue")
       => conversionQueue = <<>>
  /\ \A i \in DOMAIN conversionLog :
       LET done == conversionLog[i]
           followed == i < Len(conversionLog)
                       /\ conversionLog[i + 1].op = "executeConversion"
       IN  /\ done.op = "processQueue" /\ done.conversionQueue = <<>> => ~followed
           /\ done.op = "processQueue" /\ done.conversionQueue # <<>> =>
                /\ followed
                /\ conversionLog[i + 1].request
                     = done.conversionQueue[Len(done.conversionQueue)]
                /\ ~conversionLog[i + 1].queued
           /\ done.op = "executeConversion" /\ i > 1 =>
                conversionLog[i - 1].op = "processQueue"

\* a conversion has finished while two different requests were queued
C23_Witness ==
  \E i \in DOMAIN conversionLog :
    /\ conversionLog[i].op = "processQueue"
    /\ Len(conversionLog[i].conversionQueue) >= 2
    /\ conversionLog[i].conversionQueue[1] # conversionLog[i].conversionQueue[2]
    /\ i < Len(conversionLog)
    /\ conversionLog[i + 1].request = conversionLog[i].conversionQueue[2]

(***************************************************************************)
(* LLMProvider.generate with API keys.  input holds the installation: the  *)
(* providers that have an API key, and what each provider's server does    *)
(* with a prompt.  output holds the LLMProvider: errorCounts, rateLimits   *)
(* and the generate calls, each with the providers it has asked so far.    *)
(***************************************************************************)
\* provider.isAvailable(): the API key of a remote provider; the promise that
\* LocalLLMProvider.checkLocalServer returns, which is an object and counts as true
isAvailable(provider, apiKeys) == provider = "local" \/ provider \in apiKeys

\* detectBestProvider for the stored API keys
BestProvider(apiKeys) ==
  LET available == {i \in DOMAIN fallbackOrder : isAvailable(fallbackOrder[i], apiKeys)}
  IN  IF available = {} THEN "null"
      ELSE fallbackOrder[CHOOSE i \in available : \A j \in available : i <= j]

\* isRateLimited(providerName)
isRateLimited(llm, providerName, now) ==
  providerName \in DOMAIN llm.rateLimits /\ now < llm.rateLimits[providerName]

\* 2 to the power of n
RECURSIVE Pow2(_)
Pow2(n) == IF n = 0 THEN 1 ELSE 2 * Pow2(n - 1)

\* recordError(providerName, error)
recordError(llm, providerName, now) ==
  LET errorCount == (IF providerName \in DOMAIN llm.errorCounts
                     THEN llm.errorCounts[providerName] ELSE 0) + 1
      counted == [llm EXCEPT !.errorCounts =
                    [p \in DOMAIN @ \cup {providerName} |->
                       IF p = providerName THEN errorCount ELSE @[p]]]
      backoffTime == Min(300000, Pow2(errorCount) * 1000)
  IN  IF errorCount >= 3
      THEN [counted EXCEPT !.rateLimits =
              [p \in DOMAIN @ \cup {providerName} |->
                 IF p = providerName THEN now + backoffTime ELSE @[p]]]
      ELSE counted

\* recordSuccess(providerName, responseTime)
recordSuccess(llm, providerName) ==
  [llm EXCEPT !.errorCounts = [p \in DOMAIN @ \ {providerName} |-> @[p]]]

\* a generate call: where it stands, the provider it is waiting for, the providers it
\* has asked, the failures it has recorded, and what it returned
NewGenerate ==
  [state |-> "called", asking |-> "none", loop |-> 0, asked |-> <<>>, recorded |-> <<>>,
   result |-> [provider |-> "none", confidence |-> 0]]

\* the catch of generate: return this.fallbackResponse(prompt, options)
GenerateCaught(llm, g) ==
  [llm EXCEPT !.calls[g].state = "returned", !.calls[g].asking = "none",
              !.calls[g].result = fallbackResponse]

\* the loop over the fallback providers from position i on, as far as its next await:
\* the active provider is skipped, a rate-limited provider is passed over, a provider
\* without an API key throws at once, which is recorded
RECURSIVE GenerateLoop(_, _, _, _, _)
GenerateLoop(llm, g, i, call, now) ==
  IF i > Len(fallbackOrder) THEN GenerateCaught(llm, g)
  ELSE LET providerName == fallbackOrder[i]
       IN  IF providerName = call.activeProvider \/ isRateLimited(llm, providerName, now)
           THEN GenerateLoop(llm, g, i + 1, call, now)
           ELSE IF providerName # "local" /\ providerName \notin call.apiKeys
                THEN GenerateLoop(
                       [recordError(llm, providerName, now) EXCEPT
                          !.calls[g].asked = Append(@, providerName),
                          !.calls[g].recorded = Append(@, providerName)],
                       g, i + 1, call, now)
                ELSE [llm EXCEPT !.calls[g].state = "awaiting",
                                 !.calls[g].asking = providerName,
                                 !.calls[g].loop = i,
                                 !.calls[g].asked = Append(@, providerName)]

\* LLMProvider.generate as far as its first await
generate(llm, call, now) ==
  LET g == Len(llm.calls) + 1
      begun == [llm EXCEPT !.calls = Append(@, NewGenerate)]
  IN  IF call.activeProvider # "null" /\ ~isRateLimited(llm, call.activeProvider, now)
      THEN [begun EXCEPT !.calls[g].state = "awaiting",
                         !.calls[g].asking = call.activeProvider,
                         !.calls[g].asked = <<call.activeProvider>>]
      ELSE GenerateLoop(begun, g, 1, call, now)

\* the provider that call g is waiting for has answered
GenerateResolved(llm, g) ==
  [recordSuccess(llm, llm.calls[g].asking) EXCEPT
     !.calls[g].state = "returned", !.calls[g].asking = "none",
     !.calls[g].result = complete(llm.calls[g].asking)]

\* the provider that call g is waiting for has failed: the rejection of the active
\* provider is caught by the outer catch, that of a provider of the loop by the
\* inner one, which records it and goes on with the loop
GenerateRejected(llm, g, call, now) ==
  IF llm.calls[g].loop = 0 THEN GenerateCaught(llm, g)
  ELSE GenerateLoop(
         [recordError(llm, llm.calls[g].asking, now) EXCEPT
            !.calls[g].recorded = Append(@, llm.calls[g].asking)],
         g, llm.calls[g].loop + 1, call, now)

MaxGenerate == 2

RemoteProviders == {"anthropic", "openai", "gemini"}

Installations ==
  {[apiKeys |-> keys, activeProvider |-> BestProvider(keys), answers |-> up] :
     keys \in SUBSET RemoteProviders, up \in SUBSET {"anthropic", "openai", "gemini", "local"}}

InitProviders ==
  /\ InitEngine
  /\ workload = <<>>
  /\ script = <<>>
  /\ InitFeedback
  /\ input \in Installations
  /\ output = [errorCounts |-> <<>>, rateLimits |-> <<>>, calls |-> <<>>]
  /\ InitConverters
  /\ traffic = NoTraffic
  /\ lastOp = "init"

\* a client calls llmProvider.generate(prompt, options)
Generate ==
  /\ Len(output.calls) < MaxGenerate
  /\ output' = generate(output, input, clock)
  /\ lastOp' = "generate"
  /\ UNCHANGED <<engineVars, feedbackVars, input, converterVars>>

\* a provider answers the call that waits for it
ProviderResolves(g) ==
  /\ output.calls[g].state = "awaiting"
  /\ output.calls[g].asking \in input.answers
  /\ output' = GenerateResolved(output, g)
  /\ lastOp' = "recordSuccess"
  /\ UNCHANGED <<engineVars, feedbackVars, input, converterVars>>

\* a provider fails on the call that waits for it
ProviderRejects(g) ==
  /\ output.calls[g].state = "awaiting"
  /\ output.calls[g].asking \notin input.answers
  /\ output' = GenerateRejected(output, g, input, clock)
  /\ lastOp' = "catch"
  /\ UNCHANGED <<engineVars, feedbackVars, input, converterVars>>

NextProviders ==
  \/ Generate
  \/ \E g \in DOMAIN output.calls : ProviderResolves(g)
  \/ \E g \in DOMAIN output.calls : ProviderRejects(g)

SpecProviders == InitProviders /\ [][NextProviders]_vars

\* the providers generate is to ask: the active one, then the others in fallbackOrder
AskingOrder(call) ==
  (IF call.activeProvider = "null" THEN <<>> ELSE <<call.activeProvider>>)
    \o SelectSeq(fallbackOrder, LAMBDA p : p # call.activeProvider)

\* C24: a generate call that has returned the rule-based fallback response (provider
\* 'fallback', confidence 0.3) has asked every provider that is not rate limited, the
\* active one first and the others in fallbackOrder, and has recorded the failure of
\* each; a call that returned a provider's answer has asked, and recorded as failed,
\* the providers before that one.
C24_FallbackSupport ==
  \A g \in DOMAIN output.calls :
    LET call == output.calls[g]
        order == AskingOrder(input)
    IN  call.state = "returned" =>
          /\ call.result.provider = "fallback" =>
               /\ call.result.confidence = 300
               /\ call.asked = order
               /\ call.recorded = order
          /\ call.result.provider # "fallback" =>
               /\ call.asked = SubSeq(order, 1, Len(call.asked))
               /\ call.result.provider = call.asked[Len(call.asked)]
               /\ call.recorded = SubSeq(call.asked, 1, Len(call.asked) - 1)

\* generate has returned the fallback response after asking the active provider
\* alone, although another provider has an API key and would have answered
C24_FallbackWithoutAsking ==
  \E g \in DOMAIN output.calls :
    /\ output.calls[g].state = "returned"
    /\ output.calls[g].result = fallbackResponse
    /\ output.calls[g].asked = <<"anthropic">>
    /\ output.calls[g].recorded = <<>>
    /\ "openai" \in input.apiKeys
    /\ "openai" \in input.answers
    /\ output.errorCounts = <<>>

\* C24, last part: generate never rejects: every call that is not waiting for a
\* provider has returned a response.
C24_NeverRejects ==
  \A g \in DOMAIN output.calls :
    output.calls[g].state \in {"awaiting", "returned"}

(***************************************************************************)
(* The rate limiter of AITextConverter under convertText calls that come   *)
(* faster than the provider settles them.  Every call is answered or       *)
(* failed by the provider in the end, and the event loop runs the          *)
(* callbacks that are ready.                                               *)
(***************************************************************************)
MaxParallel == 5

InitLimiterTraffic ==
  /\ InitEngine
  /\ workload = <<>>
  /\ script = <<>>
  /\ InitFeedback
  /\ input = <<>>
  /\ output = <<>>
  /\ InitConverters
  /\ traffic = [fill |-> 0, more |-> MaxParallel, activeProvider |-> detectBestProvider,
                limiter |-> TRUE]
  /\ lastOp = "init"

NextLimiter ==
  \/ ConvertText
  \/ \E c \in DOMAIN convertCalls : ProviderAnswers(c)
  \/ \E c \in DOMAIN convertCalls : ProviderFails(c)
  \/ TimerFires

SpecLimiter == InitLimiterTraffic /\ [][NextLimiter]_vars

LimiterLoop ==
  \/ TimerFires
  \/ \E c \in DOMAIN convertCalls : ProviderAnswers(c) \/ ProviderFails(c)

SpecLimiterLive == SpecLimiter /\ WF_vars(LimiterLoop)


Settled(c) == c \in DOMAIN convertCalls /\ convertCalls[c].state \in {"returned", "rejected"}

\* C25: currentRequests always stays within 0..maxConcurrentRequests, the calls of
\* llmProvider.generate under way are as many as currentRequests says, and every
\* request on rateLimitQueue is eventually taken from the queue and its promise
\* settled, given that every generate call settles: time and again the queue is empty
\* and every call made so far has settled.
C25_LimiterBoundedAndFair ==
  /\ [](/\ currentRequests \in 0..maxConcurrentRequests
        /\ currentRequests
             = Cardinality({c \in DOMAIN convertCalls : convertCalls[c].state = "waiting"}))
  /\ []<>(/\ rateLimitQueue = <<>>
          /\ \A c \in DOMAIN convertCalls : Settled(c))

\* a request that found three requests under way and was put on rateLimitQueue behind
\* them has been taken from the queue and settled: three earlier calls settled only
\* after a later request than this one had come
C25_Witness ==
  \E c \in DOMAIN convertCalls :
    /\ Settled(c)
    /\ Cardinality({k \in 1..(c - 1) :
                      convertCalls[k].result.timestamp > convertCalls[c].startTime})
         >= maxConcurrentRequests
(***************************************************************************)
(* The learned default level.  A new engine converts one text after        *)
(* another, each call awaited before the next, and no call names a level   *)
(* or an approach: the target level comes from the context and from the    *)
(* default level learned so far.                                           *)
(***************************************************************************)
MaxDefaultCalls == 7

VariantLens == Lens(ShortLen, ShortLen, LongLen, ShortLen, ShortLen)

DefaultItems ==
  {[text |-> SampleText, context |-> c, options |-> Options(NoLevel, NoApproach),
    lens |-> l] :
     c \in {Context("unknown", "normal", "general", "neutral", 0)},
     l \in {MixedLens}}
  \cup
  {[text |-> SampleText, context |-> c, options |-> Options(NoLevel, NoApproach),
    lens |-> l] :
     c \in {Context("subordinate", "normal", "general", "neutral", 2),
            Context("superior", "urgent", "business", "neutral", 2),
            Context("unknown", "normal", "casual", "very-casual", 2)},
     l \in {VariantLens}}

InitDefault ==
  /\ InitEngine
  /\ workload = <<>>
  /\ script = <<>>
  /\ InitFeedback
  /\ input = <<>>
  /\ output = <<>>
  /\ InitConverters
  /\ traffic = NoTraffic
  /\ lastOp = "init"

IssueDefault ==
  /\ calls < MaxDefaultCalls
  /\ pending = <<>>
  /\ \E item \in DefaultItems : ConvertStart(item)

NextDefault == IssueDefault \/ ConvertResume

SpecDefault == InitDefault /\ [][NextDefault]_vars

\* C26: in a sequence of successful convertText calls without an explicit level and
\* without a preferredApproach the learned default level never decreases and stays
\* in {3, 4}; the levels recorded are only 3 or 4; once the default level is 4 every
\* later call is converted at level 4.
C26_DefaultLevelRises ==
  [][/\ userPreferences'.defaultLevel >= userPreferences.defaultLevel
     /\ userPreferences'.defaultLevel \in {3, 4}
     /\ \A i \in DOMAIN conversionHistory' : conversionHistory'[i].level \in {3, 4}
     /\ (lastOp' = "convertResume" /\ userPreferences.defaultLevel = 4)
          => /\ lastResult'.response.level = 4
             /\ conversionHistory'[Len(conversionHistory')].level = 4
  ]_vars

\* The default level has risen to 4 after a record at level 3, and a call whose
\* context alone asks for level 3 has just been converted at level 4.
C26_Witness ==
  /\ lastOp = "convertResume"
  /\ lastResult.prefsAtSelect.defaultLevel = 4
  /\ lastResult.context.relationship \in {"unknown", "subordinate"}
  /\ lastResult.context.formalityLevel = "neutral"
  /\ lastResult.response.level = 4
  /\ \E i \in DOMAIN conversionHistory : conversionHistory[i].level = 3
(***************************************************************************)
(* Overlapping calls on one engine: convertText is called again while an   *)
(* earlier call is suspended at await generateConversions.  No call names  *)
(* a level or an approach.                                                 *)
(***************************************************************************)
MaxConcurrentCalls == 7

IssueConcurrent ==
  /\ calls < MaxConcurrentCalls
  /\ Len(pending) < MaxOverlap
  /\ \E item \in DefaultItems : ConvertStart(item)

NextConcurrent == IssueConcurrent \/ ConvertResume

SpecConcurrent == InitDefault /\ [][NextConcurrent]_vars

\* C27: overlapping convertText calls behave like a sequential execution: without a
\* preferredApproach the level of each call's result is the target level resolved
\* at the start of that call, even when another call has stored its record and
\* updated the learned default level in between.
C27_LevelIsStartTarget ==
  (lastOp = "convertResume" /\ lastResult.options.preferredApproach = NoApproach) =>
    lastResult.response.level = lastResult.targetLevel

\* The same statement for calls that are awaited one after another.
C27_AwaitedLevelIsStartTarget ==
  (lastOp = "convertResume" /\ lastResult.options.preferredApproach = NoApproach) =>
    /\ lastResult.response.level = lastResult.targetLevel
    /\ determineTargetLevel(lastResult.context, lastResult.options,
                            lastResult.prefsAtSelect) = lastResult.targetLevel

\* Every call generates its candidates for the target level resolved at its start.
C27_CandidatesAtStartTarget ==
  \A k \in DOMAIN pending :
    /\ pending[k].targetLevel =
         determineTargetLevel(pending[k].context, pending[k].options,
                              pending[k].prefsAtStart)
    /\ pending[k].conversions[2].level = pending[k].targetLevel

\* A call scores its candidates against another target level than the one it
\* generated them for.
C27_ScoredAgainstLaterLevel ==
  /\ lastOp = "convertResume"
  /\ lastResult.options.preferredApproach = NoApproach
  /\ determineTargetLevel(lastResult.context, lastResult.options,
                          lastResult.prefsAtSelect) # lastResult.targetLevel
(***************************************************************************)
(* The records of the feedback learner.                                    *)
(***************************************************************************)
Submission(record) == <<record.originalText, record.convertedText, record.timestamp>>

\* C28: every collectFeedback call adds a new record: a submission that differs from
\* the recorded ones in originalText, convertedText or timestamp gets a feedbackId
\* of its own, no record is overwritten, and the number of records is the number of
\* submissions since the last clearLearningData.
C28_EveryFeedbackAdds ==
  [][(/\ lastOp' = "collectFeedback"
      /\ submitted' = submitted + 1
      /\ \A i \in DOMAIN feedbackData :
           Submission(feedbackData[i]) #
             <<feedbackLog'[Len(feedbackLog')].originalText,
               feedbackLog'[Len(feedbackLog')].convertedText, clock'>>)
       => /\ \A i \in DOMAIN feedbackData :
               i \in DOMAIN feedbackData' /\ feedbackData'[i] = feedbackData[i]
          /\ Cardinality(DOMAIN feedbackData') = Cardinality(DOMAIN feedbackData) + 1
          /\ Cardinality(DOMAIN feedbackData') = Len(feedbackLog')
  ]_vars

\* Two submissions that differ in their timestamp only have left one record.
C28_LaterSubmissionOverwrites ==
  /\ lastOp = "collectFeedback"
  /\ Len(feedbackLog) = 2
  /\ feedbackLog[1] = feedbackLog[2]
  /\ clock = 1
  /\ Cardinality(DOMAIN feedbackData) = 1
  /\ \A i \in DOMAIN feedbackData : feedbackData[i].timestamp = 1
(***************************************************************************)
(* The preferred level of the feedback learner.  A new learner receives    *)
(* WarmUp well-rated submissions at one level, which move preferredLevel   *)
(* away from its initial value, and from then on only well-rated           *)
(* submissions at one level, the second of the script.                     *)
(***************************************************************************)
WarmUp == 2
MaxConverge == 6

LikedPayloads ==
  {Payload(AkanTexts, r, NoCorrection, NoContext, Options(l, NoApproach)) :
     r \in {4, 5}, l \in 1..TopLevel}

InitConverge ==
  /\ InitEngine
  /\ workload = <<>>
  /\ script \in {<<a, b>> : a \in {p \in LikedPayloads : p.userRating = 5},
                            b \in LikedPayloads}
  /\ InitFeedback
  /\ input = <<>>
  /\ output = <<>>
  /\ InitConverters
  /\ traffic = NoTraffic
  /\ lastOp = "init"

SubmitLiked ==
  /\ submitted < MaxConverge
  /\ CollectFeedback(IF submitted < WarmUp THEN script[1] ELSE script[2])

NextConverge == SubmitLiked

SpecConverge == InitConverge /\ [][NextConverge]_vars

\* The user keeps submitting: collectFeedback can always be called, and a step that
\* counts a submission is a SubmitLiked step.
Submits == submitted < MaxConverge /\ submitted' = submitted + 1

SpecConvergeLive == SpecConverge /\ WF_submitted(Submits)

preferredLevel ==
  IF "default" \in DOMAIN learnerPreferences
  THEN learnerPreferences["default"].preferredLevel
  ELSE InitialPreferredLevel

RatedLevel == script[2].options.level

\* C29: the learned preferredLevel converges to what the user rates well: from any
\* preferredLevel in 1..5, if every further feedback has a rating of 4 or more and
\* the same level L, preferredLevel eventually equals L and stays L, for L above
\* as well as below the starting value; it stays within 1..5 throughout.
C29_PreferredLevelConverges ==
  /\ [](preferredLevel \in 1..TopLevel)
  /\ <>[](preferredLevel = RatedLevel)

\* The part of C29 that holds: preferredLevel stays within 1..5, never moves away
\* from the rated level, and reaches it when it starts at or below it.
C29_ConvergesFromBelow ==
  /\ [](preferredLevel \in 1..TopLevel)
  /\ [][submitted >= WarmUp =>
          Abs(preferredLevel' - RatedLevel) <= Abs(preferredLevel - RatedLevel)]_vars
  /\ [](submitted = WarmUp /\ preferredLevel <= RatedLevel
          => <>[](preferredLevel = RatedLevel))

\* One level above the rated level is a fixed point of the update: a further
\* well-rated submission at the rated level leaves preferredLevel where it is, so
\* the level stays there however many submissions follow.
C29_OneAboveIsFixed ==
  [][(submitted >= WarmUp /\ preferredLevel = RatedLevel + 1)
       => preferredLevel' = preferredLevel]_vars

\* After four well-rated submissions at a level below it, preferredLevel is still
\* one level above the rated level.
C29_StuckAbove ==
  /\ submitted = MaxConverge
  /\ lastOp = "collectFeedback"
  /\ preferredLevel = RatedLevel + 1
(***************************************************************************)
(* The phrase pass of WordConverter.convertText on a text that is one key  *)
(* of the phrase dictionary.                                               *)
(***************************************************************************)
PlainContext == [situation |-> "general", urgency |-> "normal", relationship |-> "unknown"]

\* The keys of phrases that contain another, shorter key.
CompoundKeys ==
  {k \in DOMAIN phrases :
     \E j \in DOMAIN phrases :
       /\ Len(phrases[j].casual) < Len(phrases[k].casual)
       /\ Contains(phrases[k].casual, phrases[j].casual)}

PhraseEntries(conversions) ==
  {i \in DOMAIN conversions : conversions[i].type = "phrase"}

\* What convertText returns when its phrase pass has produced the text `converted`:
\* the pass over the special patterns follows the phrase pass.
AfterPhrasePass(converted) == handleSpecialPatterns(converted, <<>>).text

\* C30: the phrase pass rewrites every casual phrase of the input exactly once and
\* never rewrites the text it has inserted: an input whose only casual phrase is a
\* key K that contains a shorter key is converted to exactly the polite form mapped
\* to K.
C30_CompoundKeyConvertedOnce ==
  lastOp = "convertText" =>
    \A k \in CompoundKeys :
      (input.text = phrases[k].casual /\ input.context = PlainContext) =>
        /\ output.text = AfterPhrasePass(phrases[k].polite)
        /\ \A i \in PhraseEntries(output.conversions) :
             output.conversions[i].original = phrases[k].casual
        /\ Cardinality(PhraseEntries(output.conversions)) = 1

\* The same for the keys that contain no other key: these are converted to their
\* polite form by one substitution.
C30_SimpleKeyConvertedOnce ==
  lastOp = "convertText" =>
    \A k \in DOMAIN phrases \ CompoundKeys :
      (input.text = phrases[k].casual /\ input.context = PlainContext) =>
        /\ output.text = AfterPhrasePass(phrases[k].polite)
        /\ \A i \in PhraseEntries(output.conversions) :
             output.conversions[i].original = phrases[k].casual
        /\ Cardinality(PhraseEntries(output.conversions)) = 1

\* A text that is a key without a shorter key inside has been converted.
C30_SimpleKeyConverted ==
  /\ lastOp = "convertText"
  /\ input.context = PlainContext
  /\ \E k \in DOMAIN phrases \ CompoundKeys : input.text = phrases[k].casual

\* The polite form inserted for the shorter key has been rewritten by the entry of
\* the longer key: the text is not the polite form of the longer key, and two
\* substitutions are logged.
C30_RewrittenTwice ==
  /\ lastOp = "convertText"
  /\ input.context = PlainContext
  /\ \E k \in CompoundKeys :
       /\ input.text = phrases[k].casual
       /\ output.text # AfterPhrasePass(phrases[k].polite)
       /\ Contains(output.text, phrases[k].polite)
       /\ Cardinality(PhraseEntries(output.conversions)) = 2

=============================================================================
